---------------------------- MODULE Spec2Model ----------------------------
(***************************************************************************)
(* A model of the excavator simulator (jcl5m1/excavatorsim): the Excavator *)
(* class (joint state, skeleton, physics proxies, ground-contact detector, *)
(* contact resolver, collision ledger) and the simulator's frame loop.     *)
(*                                                                         *)
(* Numbers.  The program computes in IEEE doubles; the model computes in   *)
(* fixed point on integers:                                                *)
(*   angles    in milliradians (1.25 rad = 1250),                          *)
(*   lengths   in millimetres  (0.01 m = 10),                              *)
(*   forces    in newtons, torques in newton-millimetres,                  *)
(*   time      in milliseconds,                                            *)
(*   unit vectors and rotation matrices scaled by Scale (1.0 = 1000).      *)
(***************************************************************************)
EXTENDS Integers, Sequences, FiniteSets, TLC

VARIABLES
  (* Excavator control state, part_000:45-50 *)
  mainBodyRotation, arm1Angle, arm2Angle, bucketAngle, thumbAngle, bladeHeight,
  (* limit flags, part_000:997-1001 *)
  arm1AtLimit, arm2AtLimit, bucketAtLimit, thumbAtLimit, bladeAtLimit,
  (* the dimension constants, part_000:62-99 *)
  dim,
  (* the scene graph's mutable local transforms: group.position,
     group.quaternion, mainBody.rotation.y, arm1.rotation.x, arm2.rotation.x,
     bucket.rotation.x, thumb.rotation.x, blade.position.y *)
  scene,
  (* the chassis body, part_000:26 *)
  physicsBody,
  (* the seven kinematic proxy bodies by part name, part_000:27-33 *)
  kinematicBodies,
  (* physics debug data, part_000:40-42 *)
  collisionEvents, totalCollisions, frameCollisions,
  (* Date.now(), and the value read by the last resetFrameCollisions *)
  now, resetNow,
  (* tread forces kept for display, part_000:986-987 *)
  leftTreadForce, rightTreadForce,
  (* the state objects of the GamepadController and the KeyboardController,
     GamepadController.ts:27 and part_001:7 *)
  gamepad, keyboard,
  (* the KeyboardController's set of held keys (part_001:5), the
     GamepadController's gamepad handle and its connected flag
     (GamepadController.ts:26 and 28) *)
  pressedKeys, gamepadHandle, connected,
  (* the frame loop: the position inside animate(), THREE.Clock, the frame's
     deltaTime as the clock returned it (frameDelta) and capped (dt), and the
     world's step accumulator and substep count *)
  pc, clock, frameDelta, dt, accumulator, substeps

jointVars == <<mainBodyRotation, arm1Angle, arm2Angle, bucketAngle, thumbAngle,
               bladeHeight, arm1AtLimit, arm2AtLimit, bucketAtLimit,
               thumbAtLimit, bladeAtLimit>>

bodyVars == <<dim, scene, physicsBody, kinematicBodies>>

ledgerVars == <<collisionEvents, totalCollisions, frameCollisions>>

treadVars == <<leftTreadForce, rightTreadForce>>

inputVars == <<gamepad, keyboard, pressedKeys, gamepadHandle, connected>>

frameVars == <<pc, clock, frameDelta, dt, accumulator, substeps>>

vars == <<jointVars, bodyVars, ledgerVars, now, resetNow, treadVars, inputVars,
          frameVars>>

---------------------------------------------------------------------------
(* Arithmetic helpers *)

Min(a, b) == IF a <= b THEN a ELSE b

Max(a, b) == IF a >= b THEN a ELSE b

Abs(a) == IF a < 0 THEN -a ELSE a

(* THREE.MathUtils.clamp(value, min, max) = max(min, min(max, value)) *)
clamp(value, min, max) == Max(min, Min(max, value))

---------------------------------------------------------------------------
(* Fixed-point vectors and rotations.  A vector is <<x, y, z>>; an          *)
(* orientation (THREE.Quaternion, CANNON.Quaternion) is held as the        *)
(* rotation matrix it denotes, three rows of three entries scaled by Scale *)

Scale == 10 * 100

(* n / d rounded to the nearest integer, halves away from zero *)
RoundDiv(n, d) ==
  IF n >= 0 THEN (2 * n + d) \div (2 * d) ELSE -((2 * (-n) + d) \div (2 * d))

VecAdd(a, b) == <<a[1] + b[1], a[2] + b[2], a[3] + b[3]>>

(* CANNON.Vec3.vsub *)
VecSub(a, b) == <<a[1] - b[1], a[2] - b[2], a[3] - b[3]>>

(* CANNON.Vec3.negate *)
VecNeg(a) == <<-a[1], -a[2], -a[3]>>

(* CANNON.Vec3.scale of a vector by k / Scale *)
VecScale(a, k) ==
  <<RoundDiv(a[1] * k, Scale), RoundDiv(a[2] * k, Scale), RoundDiv(a[3] * k, Scale)>>

(* CANNON.Vec3.cross: the torque r x F that Body.applyForce accumulates *)
Cross(a, b) ==
  <<a[2] * b[3] - a[3] * b[2], a[3] * b[1] - a[1] * b[3], a[1] * b[2] - a[2] * b[1]>>

Zero3 == <<0, 0, 0>>

Identity == <<<<Scale, 0, 0>>, <<0, Scale, 0>>, <<0, 0, Scale>>>>

(* Quaternion.vmult / Vector3.applyQuaternion: the vector v rotated by q *)
Rotate(q, v) ==
  << RoundDiv(q[1][1] * v[1] + q[1][2] * v[2] + q[1][3] * v[3], Scale),
     RoundDiv(q[2][1] * v[1] + q[2][2] * v[2] + q[2][3] * v[3], Scale),
     RoundDiv(q[3][1] * v[1] + q[3][2] * v[2] + q[3][3] * v[3], Scale) >>

(* one row of the product of two orientations *)
ComposeRow(r, q) ==
  << RoundDiv(r[1] * q[1][1] + r[2] * q[2][1] + r[3] * q[3][1], Scale),
     RoundDiv(r[1] * q[1][2] + r[2] * q[2][2] + r[3] * q[3][2], Scale),
     RoundDiv(r[1] * q[1][3] + r[2] * q[2][3] + r[3] * q[3][3], Scale) >>

(* the product of two orientations (parent world orientation, then local) *)
Compose(p, q) == <<ComposeRow(p[1], q), ComposeRow(p[2], q), ComposeRow(p[3], q)>>

(* Math.PI, 2 * Math.PI and Math.PI / 2 in milliradians *)
PiMrad == 3142

(* sin of an angle a, 0 <= a <= pi/2, by its Taylor series to the x^7 term *)
SinSeries(a) ==
  LET x2 == (a * a) \div Scale
      x3 == (x2 * a) \div Scale
      x5 == (x3 * x2) \div Scale
      x7 == (x5 * x2) \div Scale
  IN  Min(Scale, a - RoundDiv(x3, 6) + RoundDiv(x5, 120) - RoundDiv(x7, 5040))

(* an angle brought into (-pi, pi] *)
WrapAngle(a) == ((a + PiMrad - 1) % (2 * PiMrad)) - (PiMrad - 1)

(* Math.sin, scaled by Scale *)
Sin(a) ==
  LET w == WrapAngle(a)
      m == Abs(w)
      r == IF 2 * m > PiMrad THEN PiMrad - m ELSE m
  IN  IF w < 0 THEN -SinSeries(r) ELSE SinSeries(r)

(* Math.cos, scaled by Scale *)
Cos(a) == Sin(a + PiMrad \div 2)

(* object.rotation.x = a: the rotation about the X axis by a *)
RotX(a) ==
  <<<<Scale, 0, 0>>, <<0, Cos(a), -Sin(a)>>, <<0, Sin(a), Cos(a)>>>>

(* object.rotation.y = a: the rotation about the Y axis by a *)
RotY(a) ==
  <<<<Cos(a), 0, Sin(a)>>, <<0, Scale, 0>>, <<-Sin(a), 0, Cos(a)>>>>

---------------------------------------------------------------------------
(* Dimensions, part_000:62-99.  Lengths are held in units of 0.05 m (every *)
(* length constant of the source is a multiple of it), multipliers in      *)
(* hundredths.                                                             *)

ActualDims ==
  [ BASE_WIDTH |-> 20, BASE_LENGTH |-> 40, BASE_HEIGHT |-> 4,
    TREAD_WIDTH |-> 5, TREAD_HEIGHT |-> 8,
    BLADE_WIDTH |-> 32, BLADE_HEIGHT |-> 8,
    ARM1_WIDTH |-> 6, ARM1_LENGTH |-> 56,
    ARM2_WIDTH |-> 4, ARM2_LENGTH |-> 30,
    BUCKET_SIZE |-> 10,
    BLADE_FORWARD_OFFSET |-> 2,
    BODY_BASE_WIDTH_MULT |-> 140, BODY_BASE_HEIGHT_MULT |-> 100,
    BODY_BASE_LENGTH_MULT |-> 80, BODY_BASE_Y_OFFSET |-> 200,
    ARM1_Y_OFFSET |-> 4, ARM1_Z_OFFSET |-> 35,
    BUCKET_HEIGHT_MULT |-> 80,
    THUMB_WIDTH |-> 6, THUMB_LENGTH |-> 16, THUMB_DEPTH |-> 2,
    THUMB_Y_POS_MULT |-> 90, THUMB_Z_POS_MULT |-> -50 ]

(* a length of the dimension record in millimetres *)
Mm(units) == 50 * units

(* a length times a multiplier *)
Times(length, mult) == (length * mult) \div 100

(* the names checkKinematicCollisions and the collide listeners give the parts *)
KinematicOrder ==
  <<"Blade", "Main Body", "Arm 1 Seg 1", "Arm 1 Seg 2", "Arm 2", "Bucket", "Thumb">>

PartNames == {KinematicOrder[i] : i \in 1..Len(KinematicOrder)}

---------------------------------------------------------------------------
(* createPhysics: mass distribution, part_000:303-326.  A mass is the exact *)
(* fraction num / den kilograms.                                           *)

totalMass == 907

chassisVolume(d) ==
  (d.BASE_WIDTH + d.TREAD_WIDTH * 2) * (d.BASE_HEIGHT + d.TREAD_HEIGHT) * d.BASE_LENGTH

(* the volume of each proxy part, in units of (0.05 m)^3 *)
partVolume(d) ==
  [ n \in PartNames |->
      CASE n = "Blade" -> d.BLADE_WIDTH * d.BLADE_HEIGHT * d.BLADE_FORWARD_OFFSET
        [] n = "Main Body" ->
             Times(d.BASE_WIDTH, d.BODY_BASE_WIDTH_MULT)
               * Times(d.BASE_WIDTH, d.BODY_BASE_HEIGHT_MULT)
               * Times(d.BASE_LENGTH, d.BODY_BASE_LENGTH_MULT)
        [] n = "Arm 1 Seg 1" -> d.ARM1_WIDTH * (d.ARM1_LENGTH \div 2) * d.ARM1_WIDTH
        [] n = "Arm 1 Seg 2" -> d.ARM1_WIDTH * (d.ARM1_LENGTH \div 2) * d.ARM1_WIDTH
        [] n = "Arm 2" -> d.ARM2_WIDTH * d.ARM2_LENGTH * d.ARM2_WIDTH
        [] n = "Bucket" ->
             d.BUCKET_SIZE * Times(d.BUCKET_SIZE, d.BUCKET_HEIGHT_MULT) * d.BUCKET_SIZE
        [] n = "Thumb" -> d.THUMB_WIDTH * d.THUMB_LENGTH * d.THUMB_DEPTH ]

(* totalVolume leaving the thumb out *)
totalVolume_WithoutThumb(d) ==
  chassisVolume(d) + partVolume(d)["Blade"] + partVolume(d)["Main Body"]
    + partVolume(d)["Arm 1 Seg 1"] + partVolume(d)["Arm 1 Seg 2"]
    + partVolume(d)["Arm 2"] + partVolume(d)["Bucket"]

totalVolume(d) ==
  chassisVolume(d) + partVolume(d)["Blade"] + partVolume(d)["Main Body"]
    + partVolume(d)["Arm 1 Seg 1"] + partVolume(d)["Arm 1 Seg 2"]
    + partVolume(d)["Arm 2"] + partVolume(d)["Bucket"] + partVolume(d)["Thumb"]

(* (volume / totalVolume) * totalMass *)
massShare(volume, d) == [num |-> volume * totalMass, den |-> totalVolume(d)]

(* the half extents of each proxy's CANNON.Box, part_000:352-452, in mm *)
halfExtents(d) ==
  [ n \in PartNames |->
      CASE n = "Blade" ->
             <<Mm(d.BLADE_WIDTH) \div 2, Mm(d.BLADE_HEIGHT) \div 2,
               Mm(d.BLADE_FORWARD_OFFSET) \div 2>>
        [] n = "Main Body" ->
             <<Times(Mm(d.BASE_WIDTH), d.BODY_BASE_WIDTH_MULT) \div 2,
               Times(Mm(d.BASE_WIDTH), d.BODY_BASE_HEIGHT_MULT) \div 2,
               Times(Mm(d.BASE_LENGTH), d.BODY_BASE_LENGTH_MULT) \div 2>>
        [] n \in {"Arm 1 Seg 1", "Arm 1 Seg 2"} ->
             <<Mm(d.ARM1_WIDTH) \div 2, (Mm(d.ARM1_LENGTH) \div 2) \div 2,
               Mm(d.ARM1_WIDTH) \div 2>>
        [] n = "Arm 2" ->
             <<Mm(d.ARM2_WIDTH) \div 2, Mm(d.ARM2_LENGTH) \div 2, Mm(d.ARM2_WIDTH) \div 2>>
        [] n = "Bucket" ->
             <<Mm(d.BUCKET_SIZE) \div 2,
               Times(Mm(d.BUCKET_SIZE), d.BUCKET_HEIGHT_MULT) \div 2,
               Mm(d.BUCKET_SIZE) \div 2>>
        [] n = "Thumb" ->
             <<Mm(d.THUMB_WIDTH) \div 2, Mm(d.THUMB_LENGTH) \div 2, Mm(d.THUMB_DEPTH) \div 2>> ]

(* the chassis body as createPhysics makes it, part_000:335-347, for the
   group position the constructor was given *)
createChassisBody(d, position) ==
  [ mass |-> massShare(chassisVolume(d), d),
    position |-> VecAdd(position, <<0, (Mm(d.BASE_HEIGHT) + Mm(d.TREAD_HEIGHT)) \div 2, 0>>),
    quaternion |-> Identity,
    force |-> Zero3,
    torque |-> Zero3 ]

(* the seven kinematic bodies as createPhysics makes them, part_000:351-461:
   a new CANNON.Body stands at the origin with the identity orientation *)
createKinematicBodies(d) ==
  [ n \in PartNames |->
      [ mass |-> massShare(partVolume(d)[n], d),
        halfExtents |-> halfExtents(d)[n],
        position |-> Zero3,
        quaternion |-> Identity ] ]

(* the scene graph's mutable transforms as the create* methods leave them,
   part_000:118-296 *)
createScene(d, position) ==
  [ groupPosition |-> position,
    groupQuaternion |-> Identity,
    mainBodyRotY |-> 0,
    arm1RotX |-> 0,
    arm2RotX |-> 0,
    bucketRotX |-> 0,
    thumbRotX |-> 0,
    bladeY |-> Mm(d.TREAD_HEIGHT) + Mm(d.BLADE_HEIGHT) \div 2 ]

---------------------------------------------------------------------------
(* The skeleton: world transforms of the scene graph built by createBlade, *)
(* createMainBody and createArm (part_000:161-296), as Object3D's          *)
(* getWorldPosition / getWorldQuaternion compute them from the local       *)
(* transforms, top-down.                                                   *)

(* a child's world transform from its parent's and its own local one *)
Child(parent, localPosition, localRotation) ==
  CHOOSE node \in
    { [ position |-> VecAdd(p.position, Rotate(p.quaternion, localPosition)),
        quaternion |-> Compose(p.quaternion, r) ] : p \in {parent}, r \in {localRotation} } :
    TRUE

(* the world transform of the node each proxy follows *)
worldTransforms(sc, d) ==
  LET segment == Mm(d.ARM1_LENGTH) \div 2
      group == [position |-> sc.groupPosition, quaternion |-> sc.groupQuaternion]
      blade == Child(group,
                     <<0, sc.bladeY, Mm(d.BASE_LENGTH) \div 2 + Mm(d.BLADE_FORWARD_OFFSET)>>,
                     Identity)
      mainBody == Child(group, <<0, Mm(d.TREAD_HEIGHT) + Mm(d.BASE_HEIGHT), 0>>,
                        RotY(sc.mainBodyRotY))
      base == Child(mainBody,
                    <<0, Times(Mm(d.BASE_HEIGHT), d.BODY_BASE_Y_OFFSET),
                      -Times(Times(Mm(d.BASE_LENGTH), d.BODY_BASE_LENGTH_MULT), 20)>>,
                    Identity)
      arm1 == Child(mainBody,
                    <<0, Mm(d.ARM1_Y_OFFSET), Times(Mm(d.BASE_LENGTH), d.ARM1_Z_OFFSET)>>,
                    RotX(sc.arm1RotX))
      arm1Part1 == Child(arm1, Zero3, Identity)
      arm1Part2 == Child(arm1Part1, <<0, segment, 0>>, RotX(PiMrad \div 3))
      arm2 == Child(arm1Part2, <<0, segment, 0>>, RotX(sc.arm2RotX))
      thumb == Child(arm2,
                     <<0, Times(Mm(d.ARM2_LENGTH), d.THUMB_Y_POS_MULT),
                       -Times(Mm(d.ARM2_WIDTH), d.THUMB_Z_POS_MULT)>>,
                     RotX(sc.thumbRotX))
      bucketGroup == Child(arm2, <<0, Mm(d.ARM2_LENGTH), 0>>, Identity)
      bucket == Child(bucketGroup, Zero3, RotX(sc.bucketRotX))
  IN  [ n \in PartNames |->
          CASE n = "Blade" -> blade
            [] n = "Main Body" -> base
            [] n = "Arm 1 Seg 1" -> arm1Part1
            [] n = "Arm 1 Seg 2" -> arm1Part2
            [] n = "Arm 2" -> arm2
            [] n = "Bucket" -> bucket
            [] n = "Thumb" -> thumb ]

(* the offsets updatePhysicsBodies adds, with the thumb's sign turned *)
centreOffset_ThumbUp(d) ==
  [ n \in PartNames |->
      CASE n \in {"Blade", "Main Body"} -> Zero3
        [] n \in {"Arm 1 Seg 1", "Arm 1 Seg 2"} -> <<0, (Mm(d.ARM1_LENGTH) \div 2) \div 2, 0>>
        [] n = "Arm 2" -> <<0, Mm(d.ARM2_LENGTH) \div 2, 0>>
        [] n = "Bucket" ->
             <<0, Times(Mm(d.BUCKET_SIZE), d.BUCKET_HEIGHT_MULT) \div 2,
               Mm(d.BUCKET_SIZE) \div 2>>
        [] n = "Thumb" -> <<0, Mm(d.THUMB_LENGTH) \div 2, 0>> ]

(* the local offset updatePhysicsBodies adds for each part, part_000:830-894 *)
centreOffset(d) ==
  [ n \in PartNames |->
      CASE n \in {"Blade", "Main Body"} -> Zero3
        [] n \in {"Arm 1 Seg 1", "Arm 1 Seg 2"} -> <<0, (Mm(d.ARM1_LENGTH) \div 2) \div 2, 0>>
        [] n = "Arm 2" -> <<0, Mm(d.ARM2_LENGTH) \div 2, 0>>
        [] n = "Bucket" ->
             <<0, Times(Mm(d.BUCKET_SIZE), d.BUCKET_HEIGHT_MULT) \div 2,
               Mm(d.BUCKET_SIZE) \div 2>>
        [] n = "Thumb" -> <<0, -(Mm(d.THUMB_LENGTH) \div 2), 0>> ]

(* updatePhysicsBodies adding the centre offset to the body's own position *)
updatePhysicsBodies_Relative(sc, d, bodies) ==
  LET world == worldTransforms(sc, d)
  IN  [ n \in PartNames |->
          [ bodies[n] EXCEPT
              !.position = VecAdd(IF centreOffset(d)[n] = Zero3
                                  THEN world[n].position ELSE bodies[n].position,
                                  Rotate(world[n].quaternion, centreOffset(d)[n])),
              !.quaternion = world[n].quaternion ] ]

(* updatePhysicsBodies, part_000:825-895: the bodies after the copy *)
updatePhysicsBodies(sc, d, bodies) ==
  LET world == worldTransforms(sc, d)
  IN  [ n \in PartNames |->
          [ bodies[n] EXCEPT
              !.position = VecAdd(world[n].position,
                                  Rotate(world[n].quaternion, centreOffset(d)[n])),
              !.quaternion = world[n].quaternion ] ]

(* the scene after update() has copied the chassis pose and the joint values,
   part_000:688-710 *)
poseScene(d) ==
  [ groupPosition |->
      VecSub(physicsBody.position,
             <<0, (Mm(d.BASE_HEIGHT) + Mm(d.TREAD_HEIGHT)) \div 2, 0>>),
    groupQuaternion |-> physicsBody.quaternion,
    mainBodyRotY |-> mainBodyRotation,
    arm1RotX |-> arm1Angle,
    arm2RotX |-> arm2Angle,
    bucketRotX |-> bucketAngle,
    thumbRotX |-> thumbAngle,
    bladeY |-> Mm(d.TREAD_HEIGHT) + Mm(d.BLADE_HEIGHT) \div 2 + bladeHeight ]

(* update() copying the bodies before it has re-posed the skeleton *)
update_SyncBeforePose ==
  LET posed == poseScene(dim)
  IN  /\ scene' = posed
      /\ kinematicBodies' = updatePhysicsBodies(scene, dim, kinematicBodies)

(* Excavator.update, part_000:688-717 (the debug wireframes are not modelled) *)
update ==
  LET posed == poseScene(dim)
  IN  /\ scene' = posed
      /\ kinematicBodies' = updatePhysicsBodies(posed, dim, kinematicBodies)

---------------------------------------------------------------------------
(* Contacts: the ground scan and the collide handler *)

(* part_000:115-116 and 531 *)
COLLISION_FORCE_MULTIPLIER == 1000

PENETRATION_FORCE_MULTIPLIER == 2

reactionForceMultiplier == 5000

(* the contact threshold of part_000:499, 0.01 m *)
ContactThreshold == 10

(* the quiescence window of part_000:1041, in ms *)
ActiveWindow == 100

(* applyForce with the force taken to act at the centre of mass *)
applyForce_AtCentre(chassis, force, relativePoint) ==
  [ chassis EXCEPT !.force = VecAdd(@, force) ]

(* CANNON.Body.applyForce(force, relativePoint) on the chassis: the force and
   the torque relativePoint x force are added to the accumulators *)
applyForce(chassis, force, relativePoint) ==
  [ chassis EXCEPT !.force = VecAdd(@, force),
                   !.torque = VecAdd(@, Cross(relativePoint, force)) ]

(* Map.set(key, value) *)
MapSet(map, key, value) ==
  [ k \in DOMAIN map \cup {key} |-> IF k = key THEN value ELSE map[k] ]

(* the world Y of the bottom-centre point, part_000:490-496 *)
bottomY(body) ==
  body.position[2] + Rotate(body.quaternion, <<0, -body.halfExtents[2], 0>>)[2]

(* the test of part_000:499 with the threshold itself counted as contact *)
penetrating_Inclusive(y) == y <= ContactThreshold

(* part_000:499: bottomY < 0.01 *)
penetrating(y) == y < ContactThreshold

(* part_000:501, in mm *)
penetration(y) == Abs(y)

(* part_000:507: COLLISION_FORCE_MULTIPLIER * (1 + penetration * PENETRATION_FORCE_MULTIPLIER),
   the penetration in mm *)
forceMagnitude(y) ==
  RoundDiv(COLLISION_FORCE_MULTIPLIER
             * (Scale + penetration(y) * PENETRATION_FORCE_MULTIPLIER), Scale)

(* one ledger entry, part_000:517-523 and 561-567 *)
CollisionData(name, normal, force) ==
  [ partName |-> name, timestamp |-> now, contactNormal |-> normal,
    appliedForce |-> force, isActive |-> TRUE ]

(* the body of the forEach counting a contact in totalCollisions only *)
scanBody_NoFrameCount(st, name) ==
  LET body == kinematicBodies[name]
      contactNormal == <<0, Scale, 0>>
      force == VecScale(contactNormal, forceMagnitude(bottomY(body)))
      relativePos == VecSub(body.position, st.physicsBody.position)
  IN  IF penetrating(bottomY(body))
      THEN [ physicsBody |-> applyForce(st.physicsBody, force, relativePos),
             totalCollisions |-> st.totalCollisions + 1,
             frameCollisions |-> st.frameCollisions,
             collisionEvents |->
               MapSet(st.collisionEvents, name, CollisionData(name, contactNormal, force)) ]
      ELSE st

(* the body of the forEach of checkKinematicCollisions for one part,
   part_000:488-525; st holds the chassis, the two counters and the ledger *)
scanBody(st, name) ==
  LET body == kinematicBodies[name]
      contactNormal == <<0, Scale, 0>>
      force == VecScale(contactNormal, forceMagnitude(bottomY(body)))
      relativePos == VecSub(body.position, st.physicsBody.position)
  IN  IF penetrating(bottomY(body))
      THEN [ physicsBody |-> applyForce(st.physicsBody, force, relativePos),
             totalCollisions |-> st.totalCollisions + 1,
             frameCollisions |-> st.frameCollisions + 1,
             collisionEvents |->
               MapSet(st.collisionEvents, name, CollisionData(name, contactNormal, force)) ]
      ELSE st

RECURSIVE scanFrom(_, _)
scanFrom(i, st) ==
  IF i > Len(KinematicOrder) THEN st ELSE scanFrom(i + 1, scanBody(st, KinematicOrder[i]))

(* the state the scan and the collide handler read and write *)
contactState ==
  [ physicsBody |-> physicsBody,
    totalCollisions |-> totalCollisions,
    frameCollisions |-> frameCollisions,
    collisionEvents |-> collisionEvents ]

(* writing such a state back *)
commit(st) ==
  /\ physicsBody' = st.physicsBody
  /\ totalCollisions' = st.totalCollisions
  /\ frameCollisions' = st.frameCollisions
  /\ collisionEvents' = st.collisionEvents

(* checkKinematicCollisions, part_000:475-526 *)
checkKinematicCollisions(st) == scanFrom(1, st)

(* a solver collide event a listener may receive: no contact, or a contact
   equation with its body bi (the part itself or the other body) and its
   normal ni *)
NoContact == [none |-> TRUE]

ContactNormals == {<<0, Scale, 0>>}

CollideEvents ==
  {[contact |-> NoContact]}
    \cup {[contact |-> [biIsPart |-> b, ni |-> n]] : b \in BOOLEAN, n \in ContactNormals}

(* applyCollisionForce counting an event without contact data as a contact *)
applyCollisionForce_CountsNoContact(st, event, partName) ==
  IF event.contact = NoContact
  THEN [ st EXCEPT !.totalCollisions = @ + 1, !.frameCollisions = @ + 1 ]
  ELSE LET contactNormal ==
             IF event.contact.biIsPart THEN event.contact.ni ELSE VecNeg(event.contact.ni)
           force == VecScale(contactNormal, reactionForceMultiplier)
           relativePos == VecSub(kinematicBodies[partName].position, st.physicsBody.position)
       IN  [ physicsBody |-> applyForce(st.physicsBody, force, relativePos),
             totalCollisions |-> st.totalCollisions + 1,
             frameCollisions |-> st.frameCollisions + 1,
             collisionEvents |->
               MapSet(st.collisionEvents, partName,
                      CollisionData(partName, contactNormal, force)) ]

(* applyCollisionForce(event, partBody, partName), part_000:534-568 *)
applyCollisionForce(st, event, partName) ==
  IF event.contact = NoContact
  THEN st
  ELSE LET contactNormal ==
             IF event.contact.biIsPart THEN event.contact.ni ELSE VecNeg(event.contact.ni)
           force == VecScale(contactNormal, reactionForceMultiplier)
           relativePos == VecSub(kinematicBodies[partName].position, st.physicsBody.position)
       IN  [ physicsBody |-> applyForce(st.physicsBody, force, relativePos),
             totalCollisions |-> st.totalCollisions + 1,
             frameCollisions |-> st.frameCollisions + 1,
             collisionEvents |->
               MapSet(st.collisionEvents, partName,
                      CollisionData(partName, contactNormal, force)) ]

(* resetFrameCollisions clearing the frame counter only *)
resetFrameCollisions_NoAging ==
  /\ frameCollisions' = 0
  /\ resetNow' = now
  /\ collisionEvents' = collisionEvents

(* resetFrameCollisions deleting the entries it finds old *)
resetFrameCollisions_Evict ==
  /\ frameCollisions' = 0
  /\ resetNow' = now
  /\ collisionEvents' =
       [ k \in {j \in DOMAIN collisionEvents :
                  now - collisionEvents[j].timestamp <= ActiveWindow} |->
           collisionEvents[k] ]

(* resetFrameCollisions, part_000:1036-1045 *)
resetFrameCollisions ==
  /\ frameCollisions' = 0
  /\ resetNow' = now
  /\ collisionEvents' =
       [ k \in DOMAIN collisionEvents |->
           IF now - collisionEvents[k].timestamp > ActiveWindow
           THEN [collisionEvents[k] EXCEPT !.isActive = FALSE]
           ELSE collisionEvents[k] ]

---------------------------------------------------------------------------
(* Control limits, part_000:103-112 (milliradians; blade in millimetres) *)

ARM1_MIN_ANGLE == 0

ARM1_MAX_ANGLE == 1250

ARM2_MIN_ANGLE == 250

ARM2_MAX_ANGLE == 2250

(* -Math.PI / 2 *)
BUCKET_MIN_ANGLE == -1571

BUCKET_MAX_ANGLE == 800

THUMB_MIN_ANGLE == -3000

THUMB_MAX_ANGLE == -200

BLADE_MIN_HEIGHT == -500

BLADE_MAX_HEIGHT == -200

---------------------------------------------------------------------------
(* Bounds of the model *)

(* |mainBodyRotation| is kept within MaxYaw times 2000 mrad by the guard of
   CallSetMainBodyRotation *)
MaxYaw == 2

(* Deltas a caller may pass to setMainBodyRotation (milliradians) *)
YawDeltas == {-2000, 0, 2000}

(* Deltas a caller may pass to an angle setter (milliradians) *)
AngleDeltas == {-2000, 0, 1000, 2000}

(* Deltas a caller may pass to setBladeHeight (millimetres) *)
HeightDeltas == {-2000, 0, 100, 2000}

---------------------------------------------------------------------------
(* Joint setters, part_000:898-931 *)

(* setMainBodyRotation clamping the yaw to one full turn *)
setMainBodyRotation_Clamped(delta) ==
  mainBodyRotation' = clamp(mainBodyRotation + delta, -PiMrad, PiMrad)

setMainBodyRotation(delta) ==
  mainBodyRotation' = mainBodyRotation + delta

(* setArm1Angle flagging every nonzero delta that ends on a limit *)
setArm1Angle_FlagOnArrival(delta) ==
  /\ arm1Angle' = clamp(arm1Angle + delta, ARM1_MIN_ANGLE, ARM1_MAX_ANGLE)
  /\ arm1AtLimit' = (delta # 0 /\ arm1Angle' \in {ARM1_MIN_ANGLE, ARM1_MAX_ANGLE})

setArm1Angle(delta) ==
  /\ arm1Angle' = clamp(arm1Angle + delta, ARM1_MIN_ANGLE, ARM1_MAX_ANGLE)
  /\ arm1AtLimit' = (delta # 0 /\ arm1Angle' = arm1Angle)

(* setArm2Angle leaving the flag set once it has been set *)
setArm2Angle_FlagKept(delta) ==
  /\ arm2Angle' = clamp(arm2Angle + delta, ARM2_MIN_ANGLE, ARM2_MAX_ANGLE)
  /\ arm2AtLimit' = (arm2AtLimit \/ (delta # 0 /\ arm2Angle' = arm2Angle))

setArm2Angle(delta) ==
  /\ arm2Angle' = clamp(arm2Angle + delta, ARM2_MIN_ANGLE, ARM2_MAX_ANGLE)
  /\ arm2AtLimit' = (delta # 0 /\ arm2Angle' = arm2Angle)

setBucketAngle(delta) ==
  /\ bucketAngle' = clamp(bucketAngle + delta, BUCKET_MIN_ANGLE, BUCKET_MAX_ANGLE)
  /\ bucketAtLimit' = (delta # 0 /\ bucketAngle' = bucketAngle)

(* setThumbAngle without the test that an input was given *)
setThumbAngle_NoDeltaTest(delta) ==
  /\ thumbAngle' = clamp(thumbAngle + delta, THUMB_MIN_ANGLE, THUMB_MAX_ANGLE)
  /\ thumbAtLimit' = (thumbAngle' = thumbAngle)

setThumbAngle(delta) ==
  /\ thumbAngle' = clamp(thumbAngle + delta, THUMB_MIN_ANGLE, THUMB_MAX_ANGLE)
  /\ thumbAtLimit' = (delta # 0 /\ thumbAngle' = thumbAngle)

(* setBladeHeight clamping at the upper limit only *)
setBladeHeight_NoLowerClamp(delta) ==
  /\ bladeHeight' = Min(BLADE_MAX_HEIGHT, bladeHeight + delta)
  /\ bladeAtLimit' = (delta # 0 /\ bladeHeight' = bladeHeight)

setBladeHeight(delta) ==
  /\ bladeHeight' = clamp(bladeHeight + delta, BLADE_MIN_HEIGHT, BLADE_MAX_HEIGHT)
  /\ bladeAtLimit' = (delta # 0 /\ bladeHeight' = bladeHeight)

---------------------------------------------------------------------------
(* The state after construction *)

InitJoints ==
  /\ mainBodyRotation = 0
  /\ arm1Angle = 0
  /\ arm2Angle = 250
  /\ bucketAngle = 0
  /\ thumbAngle = -200
  /\ bladeHeight = -200
  /\ arm1AtLimit = FALSE
  /\ arm2AtLimit = FALSE
  /\ bucketAtLimit = FALSE
  /\ thumbAtLimit = FALSE
  /\ bladeAtLimit = FALSE

(* new Excavator(world, new THREE.Vector3(0, 1, 0)), part_002:69 *)
SpawnPosition == <<0, 1000, 0>>

InitBodies(d) ==
  /\ dim = d
  /\ scene = createScene(d, SpawnPosition)
  /\ physicsBody = createChassisBody(d, SpawnPosition)
  /\ kinematicBodies = createKinematicBodies(d)

InitLedger ==
  /\ collisionEvents = <<>>
  /\ totalCollisions = 0
  /\ frameCollisions = 0
  /\ now = 0
  /\ resetNow = 0

(* getDefaultState, part_001:12-27: sticks and triggers scaled by Scale *)
DefaultState ==
  [ leftStickX |-> 0, leftStickY |-> 0, rightStickX |-> 0, rightStickY |-> 0,
    leftTrigger |-> 0, rightTrigger |-> 0, leftBumper |-> FALSE,
    rightBumper |-> FALSE, dpadUp |-> FALSE, dpadDown |-> FALSE,
    buttonY |-> FALSE, buttonA |-> FALSE ]

(* the handle of a GamepadController that holds no gamepad; a held gamepad
   is the one-element sequence of its snapshot *)
Null == <<>>

(* both controllers are constructed with the default state, no key held, no
   gamepad and connected = false *)
InitInput ==
  /\ gamepad = DefaultState
  /\ keyboard = DefaultState
  /\ pressedKeys = {}
  /\ gamepadHandle = Null
  /\ connected = FALSE

(* the simulator before the first animate(): new THREE.Clock() is not
   running, the world's accumulator is empty *)
InitFrame ==
  /\ leftTreadForce = 0
  /\ rightTreadForce = 0
  /\ pc = "animate"
  /\ clock = [running |-> FALSE, oldTime |-> 0]
  /\ frameDelta = 0
  /\ dt = 0
  /\ accumulator = 0
  /\ substeps = 0

Init == InitJoints /\ InitBodies(ActualDims) /\ InitLedger /\ InitInput /\ InitFrame

---------------------------------------------------------------------------
(* SpecJoint: the setters called in any order with any delta *)

CallSetMainBodyRotation ==
  \E delta \in YawDeltas :
    /\ Abs(mainBodyRotation + delta) <= MaxYaw * 2000
    /\ setMainBodyRotation(delta)
    /\ UNCHANGED <<bodyVars, ledgerVars, now, resetNow, treadVars, inputVars, frameVars>>
    /\ UNCHANGED <<arm1Angle, arm2Angle, bucketAngle, thumbAngle, bladeHeight,
                   arm1AtLimit, arm2AtLimit, bucketAtLimit, thumbAtLimit,
                   bladeAtLimit>>

CallSetArm1Angle ==
  \E delta \in AngleDeltas :
    /\ setArm1Angle(delta)
    /\ UNCHANGED <<bodyVars, ledgerVars, now, resetNow, treadVars, inputVars, frameVars>>
    /\ UNCHANGED <<mainBodyRotation, arm2Angle, bucketAngle, thumbAngle,
                   bladeHeight, arm2AtLimit, bucketAtLimit, thumbAtLimit,
                   bladeAtLimit>>

CallSetArm2Angle ==
  \E delta \in AngleDeltas :
    /\ setArm2Angle(delta)
    /\ UNCHANGED <<bodyVars, ledgerVars, now, resetNow, treadVars, inputVars, frameVars>>
    /\ UNCHANGED <<mainBodyRotation, arm1Angle, bucketAngle, thumbAngle,
                   bladeHeight, arm1AtLimit, bucketAtLimit, thumbAtLimit,
                   bladeAtLimit>>

CallSetBucketAngle ==
  \E delta \in AngleDeltas :
    /\ setBucketAngle(delta)
    /\ UNCHANGED <<bodyVars, ledgerVars, now, resetNow, treadVars, inputVars, frameVars>>
    /\ UNCHANGED <<mainBodyRotation, arm1Angle, arm2Angle, thumbAngle,
                   bladeHeight, arm1AtLimit, arm2AtLimit, thumbAtLimit,
                   bladeAtLimit>>

CallSetThumbAngle ==
  \E delta \in AngleDeltas :
    /\ setThumbAngle(delta)
    /\ UNCHANGED <<bodyVars, ledgerVars, now, resetNow, treadVars, inputVars, frameVars>>
    /\ UNCHANGED <<mainBodyRotation, arm1Angle, arm2Angle, bucketAngle,
                   bladeHeight, arm1AtLimit, arm2AtLimit, bucketAtLimit,
                   bladeAtLimit>>

CallSetBladeHeight ==
  \E delta \in HeightDeltas :
    /\ setBladeHeight(delta)
    /\ UNCHANGED <<bodyVars, ledgerVars, now, resetNow, treadVars, inputVars, frameVars>>
    /\ UNCHANGED <<mainBodyRotation, arm1Angle, arm2Angle, bucketAngle,
                   thumbAngle, arm1AtLimit, arm2AtLimit, bucketAtLimit,
                   thumbAtLimit>>

NextJoint ==
  \/ CallSetMainBodyRotation
  \/ CallSetArm1Angle
  \/ CallSetArm2Angle
  \/ CallSetBucketAngle
  \/ CallSetThumbAngle
  \/ CallSetBladeHeight

SpecJoint == Init /\ [][NextJoint]_vars

---------------------------------------------------------------------------
(* Claims about the joint setters, checked under SpecJoint *)

(* C1: after any sequence of setter calls each of the five range-limited
   joint values lies within its [min, max]; the constructed values do too. *)
C1_JointsWithinRange ==
  /\ ARM1_MIN_ANGLE <= arm1Angle /\ arm1Angle <= ARM1_MAX_ANGLE
  /\ ARM2_MIN_ANGLE <= arm2Angle /\ arm2Angle <= ARM2_MAX_ANGLE
  /\ BUCKET_MIN_ANGLE <= bucketAngle /\ bucketAngle <= BUCKET_MAX_ANGLE
  /\ THUMB_MIN_ANGLE <= thumbAngle /\ thumbAngle <= THUMB_MAX_ANGLE
  /\ BLADE_MIN_HEIGHT <= bladeHeight /\ bladeHeight <= BLADE_MAX_HEIGHT

(* every joint sits on a limit it was clamped to, away from its initial value *)
C1_Witness ==
  /\ arm1Angle = ARM1_MAX_ANGLE
  /\ arm2Angle = ARM2_MAX_ANGLE
  /\ bucketAngle = BUCKET_MIN_ANGLE
  /\ thumbAngle = THUMB_MIN_ANGLE
  /\ bladeHeight = BLADE_MIN_HEIGHT

(* C2: after every call set*(delta) the joint's at-limit flag equals
   (delta # 0 and the stored value is the same as before the call); a call
   with delta = 0 leaves the flag false whatever it was. *)
C2_AtLimitIffNonzeroDeltaUnchanged ==
  [][ /\ \A d \in AngleDeltas :
           /\ setArm1Angle(d) => (arm1AtLimit' = (d # 0 /\ arm1Angle' = arm1Angle))
           /\ setArm2Angle(d) => (arm2AtLimit' = (d # 0 /\ arm2Angle' = arm2Angle))
           /\ setBucketAngle(d) =>
                (bucketAtLimit' = (d # 0 /\ bucketAngle' = bucketAngle))
           /\ setThumbAngle(d) => (thumbAtLimit' = (d # 0 /\ thumbAngle' = thumbAngle))
      /\ \A d \in HeightDeltas :
           setBladeHeight(d) => (bladeAtLimit' = (d # 0 /\ bladeHeight' = bladeHeight))
      /\ (setArm1Angle(0) => ~arm1AtLimit')
      /\ (setArm2Angle(0) => ~arm2AtLimit')
      /\ (setBucketAngle(0) => ~bucketAtLimit')
      /\ (setThumbAngle(0) => ~thumbAtLimit')
      /\ (setBladeHeight(0) => ~bladeAtLimit') ]_vars

(* a flag raised by a nonzero delta that could not move the joint, beside a
   joint resting on its limit with the flag down *)
C2_Witness ==
  /\ thumbAngle = THUMB_MIN_ANGLE /\ thumbAtLimit
  /\ arm1Angle = ARM1_MAX_ANGLE /\ ~arm1AtLimit

(* C3 as stated: whenever current + delta lies outside [min, max] the flag is
   true after the call, also when the value moved from inside the range onto
   the limit (range [0, 1.25], value 0, delta +2.0: 1.25 and atLimit). *)
C3_Original ==
  [][ \A d \in AngleDeltas :
        (/\ setArm1Angle(d)
         /\ (arm1Angle + d < ARM1_MIN_ANGLE \/ arm1Angle + d > ARM1_MAX_ANGLE))
        => arm1AtLimit' ]_vars

(* C3 amended: a delta that would carry the joint past its range leaves the
   joint on the limit, and raises the flag exactly when the joint was already
   on that limit before the call; from 0 with delta +2.0 the joint ends at
   1.25 with the flag false. *)
C3_OverRangeFlagOnlyIfAlreadyAtLimit ==
  [][ \A d \in AngleDeltas :
        /\ (setArm1Angle(d) /\ arm1Angle + d > ARM1_MAX_ANGLE)
             => /\ arm1Angle' = ARM1_MAX_ANGLE
                /\ arm1AtLimit' = (arm1Angle = ARM1_MAX_ANGLE)
        /\ (setArm1Angle(d) /\ arm1Angle + d < ARM1_MIN_ANGLE)
             => /\ arm1Angle' = ARM1_MIN_ANGLE
                /\ arm1AtLimit' = (arm1Angle = ARM1_MIN_ANGLE)
        /\ (setArm1Angle(d) /\ arm1Angle = 0 /\ d = 2000)
             => (arm1Angle' = 1250 /\ ~arm1AtLimit') ]_vars

(* the joint stands on its upper limit with the flag down: it was carried
   there from inside the range *)
C3_Witness == arm1Angle = ARM1_MAX_ANGLE /\ ~arm1AtLimit /\ arm2Angle = ARM2_MIN_ANGLE

(* C16 as stated: after any sequence of setMainBodyRotation calls the yaw
   stays within a fixed range, here the range of one full turn [-pi, pi]
   (the code names no range for the yaw). *)
C16_Original == mainBodyRotation \in -PiMrad..PiMrad

(* C16, amended: the yaw is changed only by setMainBodyRotation(delta),
   which adds delta without clamping: every step that changes the yaw
   changes it by exactly the delta passed and changes no other joint or
   flag, so the yaw is the sum of the deltas and has no range, while the
   five other joints stay within their limits. *)
C16_YawAddsDeltaUnclamped ==
  /\ [][ mainBodyRotation' # mainBodyRotation =>
           /\ (mainBodyRotation' - mainBodyRotation) \in (YawDeltas \ {0})
           /\ UNCHANGED <<arm1Angle, arm2Angle, bucketAngle, thumbAngle, bladeHeight,
                          arm1AtLimit, arm2AtLimit, bucketAtLimit, thumbAtLimit,
                          bladeAtLimit>> ]_vars
  /\ [](/\ arm1Angle \in ARM1_MIN_ANGLE..ARM1_MAX_ANGLE
        /\ arm2Angle \in ARM2_MIN_ANGLE..ARM2_MAX_ANGLE
        /\ bucketAngle \in BUCKET_MIN_ANGLE..BUCKET_MAX_ANGLE
        /\ thumbAngle \in THUMB_MIN_ANGLE..THUMB_MAX_ANGLE
        /\ bladeHeight \in BLADE_MIN_HEIGHT..BLADE_MAX_HEIGHT)

(* two calls with delta = 2.0 have turned the yaw past pi while the first
   arm stands clamped on its upper limit *)
C16_Witness ==
  /\ mainBodyRotation = 4000
  /\ mainBodyRotation > PiMrad
  /\ arm1Angle = ARM1_MAX_ANGLE


---------------------------------------------------------------------------
(* The operations on the bodies and the ledger, called in any order:      *)
(*   SpecBody    the world's integration of the chassis, update() and the  *)
(*               postStep ground scan, for each choice of the dimension    *)
(*               constants;                                                *)
(*   SpecLedger  the ground scan, the collide listeners,                   *)
(*               resetFrameCollisions and the passing of time.             *)

(* ActualDims with a first arm of 0.8 m, whose segments are boxes of half
   extents (0.15, 0.2, 0.15) *)
ShortArmDims == [ActualDims EXCEPT !.ARM1_LENGTH = 16]

DimChoices == {ActualDims, ShortArmDims}

(* chassis poses the world's integration may produce, besides the spawn
   pose: the chassis standing with the blade's bottom on the plane, and the
   chassis pitched by 30 degrees *)
ChassisPoses ==
  { [position |-> <<0, 100, 0>>, quaternion |-> Identity],
    [position |-> <<0, 1300, 0>>, quaternion |-> RotX(PiMrad \div 6)] }

(* further poses for the scan: the spawn pose, the blade's bottom at 10 and
   at 5 mm, the chassis sunk so that the first arm segment's pivot is
   10 mm under the plane, and the pitched chassis lowered until an edge of
   the blade is under the plane *)
ProbePoses ==
  ChassisPoses \cup
    { [position |-> <<0, 1300, 0>>, quaternion |-> Identity],
      [position |-> <<0, 110, 0>>, quaternion |-> Identity],
      [position |-> <<0, 105, 0>>, quaternion |-> Identity],
      [position |-> <<0, -510, -700>>, quaternion |-> Identity],
      [position |-> <<0, 690, 0>>, quaternion |-> RotX(PiMrad \div 6)] }

(* the parts whose collide listener the solver calls *)
CollideParts == {"Bucket", "Thumb"}

MaxCollisions == 8

MaxNow == 250

TickMs == 50

MaxLedgerNow == 150

(* World.internalStep's integration of the chassis followed by clearForces *)
integrate(st, pose) ==
  [ st EXCEPT !.physicsBody =
      [ @ EXCEPT !.position = pose.position, !.quaternion = pose.quaternion,
                 !.force = Zero3, !.torque = Zero3 ] ]

SolverIntegrate ==
  \E pose \in ProbePoses :
    /\ commit(integrate(contactState, pose))
    /\ UNCHANGED <<jointVars, dim, scene, kinematicBodies, now, resetNow,
                   treadVars, inputVars, frameVars>>

CallUpdate ==
  /\ update
  /\ UNCHANGED <<jointVars, dim, physicsBody, ledgerVars, now, resetNow,
                 treadVars, inputVars, frameVars>>

(* the postStep listener, part_000:470-472 *)
PostStep ==
  /\ checkKinematicCollisions(contactState).totalCollisions <= MaxCollisions
  /\ commit(checkKinematicCollisions(contactState))
  /\ UNCHANGED <<jointVars, dim, scene, kinematicBodies, now, resetNow,
                 treadVars, inputVars, frameVars>>

(* a collide listener, part_000:571-597 *)
Collide ==
  \E partName \in CollideParts, event \in CollideEvents :
    /\ totalCollisions < MaxCollisions
    /\ commit(applyCollisionForce(contactState, event, partName))
    /\ UNCHANGED <<jointVars, dim, scene, kinematicBodies, now, resetNow,
                   treadVars, inputVars, frameVars>>

CallResetFrameCollisions ==
  /\ resetFrameCollisions
  /\ UNCHANGED <<jointVars, bodyVars, totalCollisions, now, treadVars, inputVars, frameVars>>

(* Date.now() advances *)
Tick ==
  /\ now + TickMs <= MaxNow
  /\ now' = now + TickMs
  /\ UNCHANGED <<jointVars, bodyVars, ledgerVars, resetNow, treadVars, inputVars, frameVars>>

InitBody ==
  /\ InitJoints
  /\ \E d \in DimChoices : InitBodies(d)
  /\ InitLedger
  /\ InitInput
  /\ InitFrame

NextBody ==
  \/ SolverIntegrate
  \/ CallUpdate
  \/ PostStep

SpecBody == InitBody /\ [][NextBody]_vars

(* time passes, up to MaxLedgerNow *)
LedgerTick ==
  /\ now < MaxLedgerNow
  /\ Tick

NextLedger ==
  \/ PostStep
  \/ Collide
  \/ CallResetFrameCollisions
  \/ LedgerTick

SpecLedger == Init /\ [][NextLedger]_vars

---------------------------------------------------------------------------
(* The two controllers, part_001 and GamepadController.ts *)

(* analogValue, part_001:8 *)
analogValue == Scale

(* KeyboardController.update with the later of two opposite keys tested
   first, so that the earlier one wins *)
keyboardUpdate_FirstKeyWins(keys) ==
  LET s1 == [DefaultState EXCEPT !.leftStickX = IF "d" \in keys THEN -analogValue ELSE @]
      s2 == [s1 EXCEPT !.leftStickX = IF "a" \in keys THEN analogValue ELSE @]
      s3 == [s2 EXCEPT !.leftStickY = IF "s" \in keys THEN -analogValue ELSE @]
      s4 == [s3 EXCEPT !.leftStickY = IF "w" \in keys THEN analogValue ELSE @]
      s5 == [s4 EXCEPT !.rightStickX = IF "arrowdown" \in keys THEN -analogValue ELSE @]
      s6 == [s5 EXCEPT !.rightStickX = IF "arrowup" \in keys THEN analogValue ELSE @]
      s7 == [s6 EXCEPT !.rightStickY = IF "arrowright" \in keys THEN analogValue ELSE @]
      s8 == [s7 EXCEPT !.rightStickY = IF "arrowleft" \in keys THEN -analogValue ELSE @]
  IN  [ s8 EXCEPT !.leftTrigger = IF "z" \in keys THEN Scale ELSE 0,
                  !.leftBumper = "x" \in keys,
                  !.rightTrigger = IF "/" \in keys THEN Scale ELSE 0,
                  !.rightBumper = "." \in keys,
                  !.dpadUp = "r" \in keys,
                  !.dpadDown = "f" \in keys,
                  !.buttonY = "t" \in keys,
                  !.buttonA = "g" \in keys ]

(* KeyboardController.update, part_001:47-114: the state is rebuilt from the
   default state by the tests on pressedKeys, in the order they are written *)
keyboardUpdate(keys) ==
  LET s1 == [DefaultState EXCEPT !.leftStickX = IF "a" \in keys THEN analogValue ELSE @]
      s2 == [s1 EXCEPT !.leftStickX = IF "d" \in keys THEN -analogValue ELSE @]
      s3 == [s2 EXCEPT !.leftStickY = IF "w" \in keys THEN analogValue ELSE @]
      s4 == [s3 EXCEPT !.leftStickY = IF "s" \in keys THEN -analogValue ELSE @]
      s5 == [s4 EXCEPT !.rightStickX = IF "arrowup" \in keys THEN analogValue ELSE @]
      s6 == [s5 EXCEPT !.rightStickX = IF "arrowdown" \in keys THEN -analogValue ELSE @]
      s7 == [s6 EXCEPT !.rightStickY = IF "arrowleft" \in keys THEN -analogValue ELSE @]
      s8 == [s7 EXCEPT !.rightStickY = IF "arrowright" \in keys THEN analogValue ELSE @]
      s9 == [s8 EXCEPT !.leftTrigger = IF "z" \in keys THEN Scale ELSE @]
      s10 == [s9 EXCEPT !.leftBumper = IF "x" \in keys THEN TRUE ELSE @]
      s11 == [s10 EXCEPT !.rightTrigger = IF "/" \in keys THEN Scale ELSE @]
      s12 == [s11 EXCEPT !.rightBumper = IF "." \in keys THEN TRUE ELSE @]
      s13 == [s12 EXCEPT !.dpadUp = IF "r" \in keys THEN TRUE ELSE @]
      s14 == [s13 EXCEPT !.dpadDown = IF "f" \in keys THEN TRUE ELSE @]
      s15 == [s14 EXCEPT !.buttonY = IF "t" \in keys THEN TRUE ELSE @]
  IN  [s15 EXCEPT !.buttonA = IF "g" \in keys THEN TRUE ELSE @]

(* e.key.toLowerCase(), part_001:34 and 38, on the key names of the events *)
toLowerCase(key) ==
  CASE key = "A" -> "a"
    [] key = "D" -> "d"
    [] key = "ArrowUp" -> "arrowup"
    [] key = "ArrowDown" -> "arrowdown"
    [] key = "ArrowLeft" -> "arrowleft"
    [] key = "ArrowRight" -> "arrowright"
    [] OTHER -> key

(* deadzone, GamepadController.ts:29 *)
deadzone == 150

(* applyDeadzone, GamepadController.ts:83-85 *)
applyDeadzone(value) == IF Abs(value) < deadzone THEN 0 ELSE value

(* A Gamepad object as update() reads it: the axes, the values of buttons 6
   and 7, and the indexes of the pressed buttons.  gp.axes[i] || 0 *)
axisOf(gp, i) == IF i + 1 <= Len(gp.axes) THEN gp.axes[i + 1] ELSE 0

(* the reading of a gamepad, GamepadController.ts:98-129 *)
readGamepad(gp) ==
  [ leftStickX |-> -applyDeadzone(axisOf(gp, 0)),
    leftStickY |-> applyDeadzone(axisOf(gp, 1)),
    rightStickX |-> applyDeadzone(axisOf(gp, 3)),
    rightStickY |-> applyDeadzone(axisOf(gp, 2)),
    leftTrigger |-> IF Len(gp.axes) > 6
                    THEN RoundDiv(Max(0, axisOf(gp, 6) + Scale), 2) ELSE gp.value[1],
    rightTrigger |-> IF Len(gp.axes) > 6
                     THEN RoundDiv(Max(0, axisOf(gp, 7) + Scale), 2) ELSE gp.value[2],
    leftBumper |-> 4 \in gp.pressed,
    rightBumper |-> 5 \in gp.pressed,
    dpadUp |-> 12 \in gp.pressed,
    dpadDown |-> 13 \in gp.pressed,
    buttonY |-> 3 \in gp.pressed,
    buttonA |-> 0 \in gp.pressed ]

(* GamepadController.update, GamepadController.ts:87-130, when
   navigator.getGamepads()[0] is found (Null for nothing): the controller's
   handle, flag and state afterwards *)
gamepadUpdate(found) ==
  LET gp == IF found # Null THEN found ELSE gamepadHandle
  IN  [ gamepad |-> gp,
        connected |-> connected,
        state |-> IF gp = Null THEN gamepad ELSE readGamepad(gp[1]) ]

(* a gamepad at rest, and one with the right stick's second axis at 0.6, the
   left trigger pulled and the right one half pulled (buttons 6 and 7) *)
IdlePad == [axes |-> <<0, 0, 0, 0>>, value |-> <<0, 0>>, pressed |-> {}]

ActivePad == [axes |-> <<0, 0, 0, 600>>, value |-> <<Scale, 500>>, pressed |-> {}]

(* the gamepads navigator.getGamepads() may show in a frame *)
FramePads == {IdlePad, ActivePad}

(* the keys held when a frame samples the keyboard: none, or ArrowUp, T and
   X together *)
FrameKeySets == {{}, {"arrowup", "t", "x"}}

---------------------------------------------------------------------------

(* The simulator's frame loop, part_002:201-285 and 429-459 *)

(* states the gamepad may report in a frame *)
GamepadStates == {DefaultState} \cup {readGamepad(gp) : gp \in FramePads}

(* states the keyboard may report in a frame *)
KeyboardStates == {keyboardUpdate(keys) : keys \in FrameKeySets}

(* part_000:934-935 *)
forceStrength == 1500

torqueStrength == 200

(* applyTreadForces pushing at the left tread's position instead of the
   centre of mass *)
applyTreadForces_OffCentre(chassis, leftSpeed, rightSpeed) ==
  LET forward == Rotate(chassis.quaternion, <<0, 0, Scale>>)
      avgSpeed == RoundDiv(leftSpeed + rightSpeed, 2)
      force == VecScale(forward, RoundDiv(avgSpeed * forceStrength, Scale))
      diff == rightSpeed - leftSpeed
  IN  [ applyForce(chassis, force, <<-500, 0, 0>>) EXCEPT
          !.torque = VecAdd(@, <<0, diff * torqueStrength, 0>>) ]

(* applyTreadForces, part_000:933-952, on the chassis; the speeds are scaled
   by Scale *)
applyTreadForces(chassis, leftSpeed, rightSpeed) ==
  LET forward == Rotate(chassis.quaternion, <<0, 0, Scale>>)
      avgSpeed == RoundDiv(leftSpeed + rightSpeed, 2)
      force == VecScale(forward, RoundDiv(avgSpeed * forceStrength, Scale))
      diff == rightSpeed - leftSpeed
  IN  [ applyForce(chassis, force, Zero3) EXCEPT
          !.torque = VecAdd(@, <<0, diff * torqueStrength, 0>>) ]

(* a speed of tenths / 10 per second over deltaTime milliseconds *)
SpeedTimes(tenths, deltaTime) == RoundDiv(tenths * deltaTime, 10)

(* a stick value, scaled by Scale, times a speed *)
StickTimes(stick, speed) == RoundDiv(stick * speed, Scale)

(* the merge of one stick axis adding the two values only *)
mergeStick_Unclamped(gamepadValue, keyboardValue) == gamepadValue + keyboardValue

(* the merge of one stick axis, part_002:211-214:
   Math.max(-1, Math.min(1, gamepad + keyboard)) *)
mergeStick(gamepadValue, keyboardValue) ==
  Max(-Scale, Min(Scale, gamepadValue + keyboardValue))

(* handleControls(deltaTime), part_002:201-285: the two update() calls leave
   gamepadState and keyboardState in the controllers' state objects, which
   getState() returns *)
handleControls(deltaTime, gamepadState, keyboardState) ==
  LET leftStickX == mergeStick(gamepadState.leftStickX, keyboardState.leftStickX)
      leftStickY == mergeStick(gamepadState.leftStickY, keyboardState.leftStickY)
      rightStickX == mergeStick(gamepadState.rightStickX, keyboardState.rightStickX)
      rightStickY == mergeStick(gamepadState.rightStickY, keyboardState.rightStickY)
      leftTrigger == Max(gamepadState.leftTrigger, keyboardState.leftTrigger)
      rightTrigger == Max(gamepadState.rightTrigger, keyboardState.rightTrigger)
      leftBumper == gamepadState.leftBumper \/ keyboardState.leftBumper
      rightBumper == gamepadState.rightBumper \/ keyboardState.rightBumper
      dpadUp == gamepadState.dpadUp \/ keyboardState.dpadUp
      dpadDown == gamepadState.dpadDown \/ keyboardState.dpadDown
      buttonY == gamepadState.buttonY \/ keyboardState.buttonY
      buttonA == gamepadState.buttonA \/ keyboardState.buttonA
      rotationSpeed == SpeedTimes(20, deltaTime)
      arm2Speed == SpeedTimes(10, deltaTime)
      arm1Speed == SpeedTimes(10, deltaTime)
      bucketSpeed == SpeedTimes(15, deltaTime)
      thumbSpeed == SpeedTimes(10, deltaTime)
      bladeSpeed == SpeedTimes(5, deltaTime)
      thumbDelta == IF dpadUp THEN -thumbSpeed ELSE IF dpadDown THEN thumbSpeed ELSE 0
      bladeDelta == IF buttonY THEN -bladeSpeed ELSE IF buttonA THEN bladeSpeed ELSE 0
      leftSpeed == IF leftBumper THEN -Scale ELSE IF leftTrigger > 0 THEN leftTrigger ELSE 0
      rightSpeed == IF rightBumper THEN -Scale ELSE IF rightTrigger > 0 THEN rightTrigger ELSE 0
  IN  /\ gamepad' = gamepadState
      /\ keyboard' = keyboardState
      /\ setMainBodyRotation(StickTimes(leftStickX, rotationSpeed))
      /\ setArm2Angle(StickTimes(-leftStickY, arm2Speed))
      /\ setArm1Angle(StickTimes(rightStickX, arm1Speed))
      /\ setBucketAngle(StickTimes(-rightStickY, bucketSpeed))
      /\ setThumbAngle(thumbDelta)
      /\ setBladeHeight(bladeDelta)
      /\ leftTreadForce' = leftSpeed
      /\ rightTreadForce' = rightSpeed
      /\ physicsBody' = applyTreadForces(physicsBody, leftSpeed, rightSpeed)

(* maxDeltaTime of animate, part_002:433, in ms *)
maxDeltaTime == 100

(* the frame's time step taken as the clock returned it *)
cappedDelta_Uncapped(deltaTime) == deltaTime

(* dt = Math.min(deltaTime, maxDeltaTime), part_002:434 *)
cappedDelta(deltaTime) == Min(deltaTime, maxDeltaTime)

(* world.step(1 / 60, dt, 3), part_002:440: the accumulator is held in
   thirds of a millisecond, in which the fixed step is 50 *)
fixedTimeStep == 50

maxSubSteps == 3

(* clock.getDelta() of a clock that runs from its construction *)
getDelta_FromConstruction == now - clock.oldTime

(* THREE.Clock.getDelta(), part_002:432: the first call starts the clock and
   returns 0, a later call returns the time since the call before *)
getDelta == IF clock.running THEN now - clock.oldTime ELSE 0

(* animate() calling handleControls before world.step *)
Animate_ControlsFirst ==
  /\ pc = "animate"
  /\ clock.running => now > clock.oldTime
  /\ LET deltaTime == getDelta
     IN  /\ clock' = [running |-> TRUE, oldTime |-> now]
         /\ frameDelta' = deltaTime
         /\ dt' = cappedDelta(deltaTime)
         /\ accumulator' = accumulator + 3 * cappedDelta(deltaTime)
  /\ resetFrameCollisions
  /\ substeps' = 0
  /\ pc' = "controls"
  /\ UNCHANGED <<jointVars, bodyVars, totalCollisions, now, treadVars, inputVars>>

(* animate() up to the call of world.step, part_002:429-437: clock.getDelta()
   (0 on the first call, which starts the clock), the cap, and
   resetFrameCollisions; world.step adds dt to its accumulator.  Two
   animation frames are never called at the same time. *)
Animate ==
  /\ pc = "animate"
  /\ clock.running => now > clock.oldTime
  /\ LET deltaTime == getDelta
     IN  /\ clock' = [running |-> TRUE, oldTime |-> now]
         /\ frameDelta' = deltaTime
         /\ dt' = cappedDelta(deltaTime)
         /\ accumulator' = accumulator + 3 * cappedDelta(deltaTime)
  /\ resetFrameCollisions
  /\ substeps' = 0
  /\ pc' = "step"
  /\ UNCHANGED <<jointVars, bodyVars, totalCollisions, now, treadVars, inputVars>>

(* The bodies of the world: the ground plane of createGround, the chassis
   and the seven proxies *)
SceneBodies == {"Ground", "Chassis"} \cup PartNames

(* the body types with the proxies created as dynamic bodies *)
bodyType_DynamicProxies(body) ==
  IF body = "Ground" THEN "STATIC" ELSE "DYNAMIC"

(* the body types: mass 0 makes the ground static (part_002:190), the
   chassis has a mass and no type and is dynamic (part_000:335-347), the
   proxies are created with type KINEMATIC (part_000:361 ...) *)
bodyType(body) ==
  IF body = "Ground" THEN "STATIC"
  ELSE IF body = "Chassis" THEN "DYNAMIC" ELSE "KINEMATIC"

(* GROUND_GROUP = 2 for the ground, EXCAVATOR_GROUP = 1 for the chassis and
   the proxies (part_002:192, part_000:345, 362 ...) *)
collisionFilterGroup(body) == IF body = "Ground" THEN 2 ELSE 1

(* part_002:193, part_000:346, 363 ... *)
collisionFilterMask(body) == IF body = "Ground" THEN 1 ELSE 2

(* the pairs of bodies for which the solver makes contact equations, and so
   collide events: the filter groups and masks of both must match (each is a
   single bit here), and one of the two must be dynamic; a kinematic body
   and a static body are only tested for overlap (part_000:476) *)
contactEquations(a, b) ==
  /\ a # b
  /\ collisionFilterMask(a) = collisionFilterGroup(b)
  /\ collisionFilterMask(b) = collisionFilterGroup(a)
  /\ "DYNAMIC" \in {bodyType(a), bodyType(b)}

(* the bodies whose contact with a part calls the part's collide listener *)
collidePartners(partName) ==
  {body \in SceneBodies : contactEquations(partName, body)}

(* the contact of a part with the ground plane, whose normal is (0, 1, 0)
   (part_002:194-195) *)
groundContact == [contact |-> [biIsPart |-> FALSE, ni |-> <<0, Scale, 0>>]]

(* the collide events of one internalStep: the listener of every part that
   touches a body it has contact equations with is called; the ground is the
   only body the proxies' filter lets through *)
RECURSIVE dispatchCollideFrom(_, _)
dispatchCollideFrom(i, st) ==
  IF i > Len(KinematicOrder)
  THEN st
  ELSE dispatchCollideFrom(i + 1,
         IF /\ "Ground" \in collidePartners(KinematicOrder[i])
            /\ penetrating(bottomY(kinematicBodies[KinematicOrder[i]]))
         THEN applyCollisionForce(st, groundContact, KinematicOrder[i])
         ELSE st)

(* a proxy after the world's integration over one fixed step: gravity acts
   on dynamic bodies only (9.82 m/s^2 over 1/60 s from rest, part_002:60), and
   a kinematic body moves by its velocity, which nothing in the program sets *)
integrateProxy(name, body) ==
  IF bodyType(name) = "DYNAMIC"
  THEN [body EXCEPT !.position = VecAdd(@, <<0, -RoundDiv(9820, 60 * 60), 0>>)]
  ELSE body

(* one World.internalStep inside world.step: the collide events of the
   contacts found, the integration of the chassis and of the proxies,
   clearForces, and the postStep event that runs the ground scan *)
InternalStep ==
  /\ pc = "step"
  /\ accumulator >= fixedTimeStep
  /\ substeps < maxSubSteps
  /\ \E pose \in ChassisPoses :
       LET st == checkKinematicCollisions(
                   integrate(dispatchCollideFrom(1, contactState), pose))
       IN  /\ st.totalCollisions <= MaxCollisions
           /\ commit(st)
  /\ kinematicBodies' = [n \in PartNames |-> integrateProxy(n, kinematicBodies[n])]
  /\ accumulator' = accumulator - fixedTimeStep
  /\ substeps' = substeps + 1
  /\ UNCHANGED <<jointVars, dim, scene, now, resetNow, treadVars, inputVars,
                 pc, clock, frameDelta, dt>>

(* world.step returns: the accumulator is used up or maxSubSteps steps were
   taken (or the steps taken have used more than a step's time), and what is
   left is cut to less than a step *)
EndStep ==
  /\ pc = "step"
  /\ accumulator < fixedTimeStep \/ substeps >= maxSubSteps \/ substeps >= 1
  /\ accumulator' = accumulator % fixedTimeStep
  /\ pc' = "controls"
  /\ UNCHANGED <<jointVars, bodyVars, ledgerVars, now, resetNow, treadVars, inputVars,
                 clock, frameDelta, dt, substeps>>

(* this.handleControls(dt), part_002:443: the key events delivered since the
   frame before have left one of FrameKeySets held, and navigator.getGamepads()
   shows one of FramePads at index 0, or nothing *)
HandleControls ==
  /\ pc = "controls"
  /\ \E found \in {Null} \cup {<<gp>> : gp \in FramePads}, keys \in FrameKeySets :
       /\ pressedKeys' = keys
       /\ gamepadHandle' = gamepadUpdate(found).gamepad
       /\ connected' = connected
       /\ \E gp \in {gamepadUpdate(found).state}, kb \in {keyboardUpdate(keys)} :
            handleControls(dt, gp, kb)
  /\ pc' = "update"
  /\ UNCHANGED <<dim, scene, kinematicBodies, ledgerVars, now, resetNow,
                 clock, frameDelta, dt, accumulator, substeps>>

(* this.excavator.update(dt), part_002:446 *)
FrameUpdate ==
  /\ pc = "update"
  /\ update
  /\ pc' = "telemetry"
  /\ UNCHANGED <<jointVars, dim, physicsBody, ledgerVars, now, resetNow, treadVars, inputVars,
                 clock, frameDelta, dt, accumulator, substeps>>

(* updateTelemetry and updatePhysicsDebug read the getters, and the frame
   ends, part_002:449-458 *)
Telemetry ==
  /\ pc = "telemetry"
  /\ pc' = "animate"
  /\ UNCHANGED <<jointVars, bodyVars, ledgerVars, now, resetNow, treadVars, inputVars,
                 clock, frameDelta, dt, accumulator, substeps>>

(* time passes between two frames, and inside a frame before the displays
   are written *)
FrameTick ==
  /\ pc \in {"animate", "telemetry"}
  /\ Tick

Next ==
  \/ Animate
  \/ InternalStep
  \/ EndStep
  \/ HandleControls
  \/ FrameUpdate
  \/ Telemetry
  \/ FrameTick

Spec == Init /\ [][Next]_vars

---------------------------------------------------------------------------
(* SpecInput: the two controllers alone: key events, blur, gamepad events   *)
(*            and the update() calls in any order.                          *)

(* the key names of the keyboard events *)
EventKeys == {"a", "A", "d", "D", "w", "s", "ArrowUp", "ArrowDown", "ArrowLeft", "ArrowRight"}

(* the most keys held at a time *)
MaxPressed == 3

(* a gamepad that reports its triggers as axes 6 and 7, with the left stick
   inside the deadzone, the left trigger axis at rest position 0 and the right
   one released *)
AxisTriggerPad ==
  [axes |-> <<100, 0, 0, 0, 0, 0, 0, -Scale>>, value |-> <<0, 0>>, pressed |-> {3, 12}]

InputPads == {ActivePad, AxisTriggerPad}

(* the keydown listener, part_001:33-35 *)
KeyDown ==
  \E key \in EventKeys :
    /\ Cardinality(pressedKeys \cup {toLowerCase(key)}) <= MaxPressed
    /\ pressedKeys' = pressedKeys \cup {toLowerCase(key)}
    /\ UNCHANGED <<jointVars, bodyVars, ledgerVars, now, resetNow, treadVars,
                   gamepad, keyboard, gamepadHandle, connected, frameVars>>

(* the keyup listener, part_001:37-39 *)
KeyUp ==
  \E key \in EventKeys :
    /\ pressedKeys' = pressedKeys \ {toLowerCase(key)}
    /\ UNCHANGED <<jointVars, bodyVars, ledgerVars, now, resetNow, treadVars,
                   gamepad, keyboard, gamepadHandle, connected, frameVars>>

(* the blur listener, part_001:42-44 *)
Blur ==
  /\ pressedKeys' = {}
  /\ UNCHANGED <<jointVars, bodyVars, ledgerVars, now, resetNow, treadVars,
                 gamepad, keyboard, gamepadHandle, connected, frameVars>>

(* KeyboardController.update(), part_001:47-114 *)
KeyboardUpdate ==
  /\ keyboard' = keyboardUpdate(pressedKeys)
  /\ UNCHANGED <<jointVars, bodyVars, ledgerVars, now, resetNow, treadVars,
                 gamepad, pressedKeys, gamepadHandle, connected, frameVars>>

(* the gamepadconnected listener, GamepadController.ts:54-59 *)
GamepadConnected ==
  \E gp \in InputPads :
    /\ gamepadHandle' = <<gp>>
    /\ connected' = TRUE
    /\ UNCHANGED <<jointVars, bodyVars, ledgerVars, now, resetNow, treadVars,
                   gamepad, keyboard, pressedKeys, frameVars>>

(* the gamepaddisconnected listener, GamepadController.ts:61-67 *)
GamepadDisconnected ==
  /\ gamepadHandle' = Null
  /\ connected' = FALSE
  /\ gamepad' = DefaultState
  /\ UNCHANGED <<jointVars, bodyVars, ledgerVars, now, resetNow, treadVars,
                 keyboard, pressedKeys, frameVars>>

(* GamepadController.update(), GamepadController.ts:87-130, with or without
   a gamepad at index 0 of navigator.getGamepads() *)
GamepadUpdate ==
  \E found \in {Null} \cup {<<gp>> : gp \in InputPads} :
    /\ gamepadHandle' = gamepadUpdate(found).gamepad
    /\ connected' = gamepadUpdate(found).connected
    /\ gamepad' = gamepadUpdate(found).state
    /\ UNCHANGED <<jointVars, bodyVars, ledgerVars, now, resetNow, treadVars,
                   keyboard, pressedKeys, frameVars>>

NextInput ==
  \/ KeyDown
  \/ KeyUp
  \/ Blur
  \/ KeyboardUpdate
  \/ GamepadConnected
  \/ GamepadDisconnected
  \/ GamepadUpdate

SpecInput == Init /\ [][NextInput]_vars

---------------------------------------------------------------------------

(* SpecPace: the frame loop on a display that calls animate() every 10 ms,   *)
(*           so that a frame may add less than a fixed step to the world's  *)
(*           accumulator.                                                   *)

ShortTickMs == 10

MaxPaceNow == 40

(* time passes between two frames *)
PaceTick ==
  /\ pc \in {"animate", "telemetry"}
  /\ now + ShortTickMs <= MaxPaceNow
  /\ now' = now + ShortTickMs
  /\ UNCHANGED <<jointVars, bodyVars, ledgerVars, resetNow, treadVars, inputVars, frameVars>>

NextPace ==
  \/ Animate
  \/ InternalStep
  \/ EndStep
  \/ HandleControls
  \/ FrameUpdate
  \/ Telemetry
  \/ PaceTick

SpecPace == Init /\ [][NextPace]_vars

---------------------------------------------------------------------------

(* SpecControls: handleControls called frame after frame with a frame time   *)
(*               of 0.1 s, without a physics step in between.               *)

(* a gamepad with the left stick pushed left by 0.6 *)
StickPad == [axes |-> <<-600, 0, 0, 0>>, value |-> <<0, 0>>, pressed |-> {}]

ControlPads == {IdlePad, StickPad}

(* the keys held at a call: none, D, or W and Z together *)
ControlKeySets == {{}, {"d"}, {"w", "z"}}

MaxTreadForce == 1500

CallHandleControls ==
  /\ \E found \in {Null} \cup {<<gp>> : gp \in ControlPads}, keys \in ControlKeySets :
       /\ pressedKeys' = keys
       /\ gamepadHandle' = gamepadUpdate(found).gamepad
       /\ connected' = connected
       /\ \E gp \in {gamepadUpdate(found).state}, kb \in {keyboardUpdate(keys)} :
            handleControls(maxDeltaTime, gp, kb)
  /\ Abs(mainBodyRotation') <= MaxYaw * 2000
  /\ Abs(physicsBody'.force[3]) <= MaxTreadForce
  /\ UNCHANGED <<dim, scene, kinematicBodies, ledgerVars, now, resetNow, frameVars>>

NextControls == CallHandleControls

SpecControls == Init /\ [][NextControls]_vars

---------------------------------------------------------------------------

(* Claims about the masses and the ground scan, checked under SpecBody *)

(* C4 as stated: the masses of the seven proxy parts sum to the total
   vehicle mass 907, for every choice of the dimension constants. *)
C4_Original ==
  LET den == kinematicBodies["Blade"].mass.den
      num(n) == kinematicBodies[n].mass.num
  IN  /\ \A n \in PartNames : kinematicBodies[n].mass.den = den
      /\ num("Blade") + num("Main Body") + num("Arm 1 Seg 1") + num("Arm 1 Seg 2")
           + num("Arm 2") + num("Bucket") + num("Thumb") = 907 * den

(* C4, amended: the masses of the chassis body and the seven proxy parts
   together sum to 907 for every choice of the dimension constants (the
   seven proxies alone fall short of 907 by the chassis's share), and no
   operation changes the mass of any body. *)
C4_ChassisAndPartsSumToTotal ==
  /\ [](LET den == physicsBody.mass.den
            num(n) == kinematicBodies[n].mass.num
        IN  /\ den > 0
            /\ \A n \in PartNames : kinematicBodies[n].mass.den = den
            /\ physicsBody.mass.num > 0
            /\ physicsBody.mass.num + num("Blade") + num("Main Body")
                 + num("Arm 1 Seg 1") + num("Arm 1 Seg 2") + num("Arm 2")
                 + num("Bucket") + num("Thumb") = 907 * den
            /\ num("Blade") + num("Main Body") + num("Arm 1 Seg 1")
                 + num("Arm 1 Seg 2") + num("Arm 2") + num("Bucket") + num("Thumb")
                 = 907 * den - physicsBody.mass.num)
  /\ [][ /\ physicsBody'.mass = physicsBody.mass
         /\ \A n \in PartNames : kinematicBodies'[n].mass = kinematicBodies[n].mass ]_vars

(* the shorter arm's bodies after the chassis moved, update() copied the
   poses and a scan registered contacts *)
C4_Witness ==
  /\ dim = ShortArmDims
  /\ physicsBody.position # <<0, 1300, 0>>
  /\ kinematicBodies["Blade"].position # Zero3
  /\ totalCollisions > 0

(* C6: when the bottom point of every proxy is at or above 0.01 m the scan
   applies no force, writes no ledger entry and leaves both counters as they
   were; a proxy whose bottom is exactly at 0.01 m is not in contact. *)
C6_NoContactAtOrAboveThreshold ==
  /\ (\A n \in PartNames : bottomY(kinematicBodies[n]) >= 10)
       => checkKinematicCollisions(contactState) = contactState
  /\ \A n \in PartNames :
       bottomY(kinematicBodies[n]) = 10 => scanBody(contactState, n) = contactState

(* the blade's bottom stands exactly at 0.01 m, every other part higher,
   after an earlier scan had registered a contact *)
C6_Witness ==
  /\ bottomY(kinematicBodies["Blade"]) = 10
  /\ \A n \in PartNames : bottomY(kinematicBodies[n]) >= 10
  /\ totalCollisions > 0
  /\ totalCollisions < MaxCollisions

(* the world Y of the corner (sx, sy, sz) of a body's box, sx, sy, sz = +-1 *)
cornerY(body, sx, sy, sz) ==
  body.position[2]
    + Rotate(body.quaternion,
             <<sx * body.halfExtents[1], sy * body.halfExtents[2],
               sz * body.halfExtents[3]>>)[2]

(* the world Y of the lowest point of a body's box, which is a corner *)
lowestY(body) ==
  LET ys == { cornerY(body, sx, sy, sz) : sx \in {-1, 1}, sy \in {-1, 1}, sz \in {-1, 1} }
  IN  CHOOSE y \in ys : \A z \in ys : y <= z

(* C17 as stated: for every orientation of a proxy the point the scan tests
   is the lowest point of the box (no point of the box lies below bottomY,
   up to 2 mm of rounding), so that a box any part of which lies under the
   threshold is flagged. *)
C17_Original ==
  \A n \in PartNames :
    /\ bottomY(kinematicBodies[n]) <= lowestY(kinematicBodies[n]) + 2
    /\ lowestY(kinematicBodies[n]) < ContactThreshold - 2
         => penetrating(bottomY(kinematicBodies[n]))

(* C7 as stated: for bottom heights b1 < b2 < 0.01 m the force applied for
   b1 is strictly greater than the force applied for b2, also when b2 lies
   in the band 0 <= b2 < 0.01 m. *)
C7_Original ==
  \A n \in PartNames : \A b2 \in -20..9 :
    LET b1 == bottomY(kinematicBodies[n])
    IN  (b1 < b2 /\ b2 < 10)
          => scanBody(contactState, n).collisionEvents[n].appliedForce[2]
               > forceMagnitude(b2)

(* C8: a box of half extents (0.15, 0.2, 0.15) at (0, 0.19, 0) with the
   identity orientation has its bottom at -0.01 m, is in contact with depth
   0.01 m, and the scan applies 1020 N along (0, 1, 0) to the chassis at the
   box's position relative to the chassis. *)
C8_BoxScenario ==
  LET box == kinematicBodies["Arm 1 Seg 1"]
      st == scanBody(contactState, "Arm 1 Seg 1")
      arm == VecSub(<<0, 190, 0>>, physicsBody.position)
  IN  (box.halfExtents = <<150, 200, 150>> /\ box.position = <<0, 190, 0>>
         /\ box.quaternion = Identity)
        => /\ bottomY(box) = -10
           /\ st.totalCollisions = totalCollisions + 1
           /\ st.frameCollisions = frameCollisions + 1
           /\ st.collisionEvents["Arm 1 Seg 1"].contactNormal = <<0, 1000, 0>>
           /\ st.collisionEvents["Arm 1 Seg 1"].appliedForce = <<0, 1020, 0>>
           /\ st.physicsBody.force = VecAdd(physicsBody.force, <<0, 1020, 0>>)
           /\ st.physicsBody.torque =
                VecAdd(physicsBody.torque,
                       <<-(arm[3] * 1020), 0, arm[1] * 1020>>)

(* the box stands as in the scenario and a scan has written its entry *)
C8_Witness ==
  /\ kinematicBodies["Arm 1 Seg 1"].halfExtents = <<150, 200, 150>>
  /\ kinematicBodies["Arm 1 Seg 1"].position = <<0, 190, 0>>
  /\ kinematicBodies["Arm 1 Seg 1"].quaternion = Identity
  /\ "Arm 1 Seg 1" \in DOMAIN collisionEvents
  /\ collisionEvents["Arm 1 Seg 1"].appliedForce = <<0, 1020, 0>>
  /\ physicsBody.torque[1] # 0

---------------------------------------------------------------------------
(* Claims about the ledger, checked under SpecLedger *)

(* C10: after any sequence of scans, collide callbacks and resets the ledger
   holds at most one entry per part and at most seven entries, each under
   the name of its part; a repeated contact overwrites the part's entry, and
   an entry once made is never removed, only marked inactive. *)
C10_LedgerKeyedByPart ==
  /\ [](/\ DOMAIN collisionEvents \subseteq PartNames
        /\ Cardinality(DOMAIN collisionEvents) <= 7
        /\ \A k \in DOMAIN collisionEvents : collisionEvents[k].partName = k)
  /\ [][ /\ DOMAIN collisionEvents \subseteq DOMAIN collisionEvents'
         /\ \A k \in DOMAIN collisionEvents :
              \/ collisionEvents'[k] = collisionEvents[k]
              \/ collisionEvents'[k] = [collisionEvents[k] EXCEPT !.isActive = FALSE]
              \/ /\ collisionEvents'[k].timestamp = now
                 /\ collisionEvents'[k].isActive
                 /\ totalCollisions' > totalCollisions ]_vars

(* all seven parts have an entry, the bucket's was overwritten by a collide
   callback, and a reset has marked others inactive *)
C10_Witness ==
  /\ Cardinality(DOMAIN collisionEvents) = 7
  /\ collisionEvents["Bucket"].appliedForce[2] = 5000
  /\ collisionEvents["Bucket"].isActive
  /\ \E k \in DOMAIN collisionEvents : ~collisionEvents[k].isActive

(* C19: a collide event without contact data is skipped alone: the handler
   applies no force and leaves the ledger and both counters as they were,
   and the other collide events and the ground scan of the same step act as
   they would have without it. *)
C19_NoContactSkippedAlone ==
  /\ \A partName \in PartNames :
       LET skipped == applyCollisionForce(contactState, [contact |-> NoContact], partName)
       IN  /\ skipped.physicsBody.force = physicsBody.force
           /\ skipped.physicsBody.torque = physicsBody.torque
           /\ skipped.collisionEvents = collisionEvents
           /\ skipped.totalCollisions = totalCollisions
           /\ skipped.frameCollisions = frameCollisions
  /\ \A partName \in CollideParts :
       LET skipped == applyCollisionForce(contactState, [contact |-> NoContact], partName)
       IN  /\ \A other \in CollideParts : \A event \in CollideEvents :
                applyCollisionForce(skipped, event, other)
                  = applyCollisionForce(contactState, event, other)
           /\ \A name \in {"Blade", partName} :
                scanBody(skipped, name) = scanBody(contactState, name)

(* contacts have been recorded by both paths, forces stand in the chassis's
   accumulators, and a scan would record further contacts *)
C19_Witness ==
  /\ totalCollisions > 0
  /\ "Bucket" \in DOMAIN collisionEvents
  /\ collisionEvents["Bucket"].appliedForce[2] = -5000
  /\ "Blade" \in DOMAIN collisionEvents
  /\ physicsBody.force # Zero3
  /\ checkKinematicCollisions(contactState).totalCollisions > totalCollisions

(* the direction from the part to the other body of a contact, given that
   the solver's normal ni points out of contact.bi toward contact.bj *)
C18_TowardObstacle(contact) ==
  IF contact.biIsPart THEN contact.ni ELSE VecNeg(contact.ni)

(* C18 as stated: for every contact the collide handler is given, whether
   the part is the solver's body A (contact.bi) or body B, the normal it
   records and scales by 5000 into the force points away from the obstacle
   and into the part, and the force is applied to the chassis at the part's
   position relative to the chassis. *)
C18_Original ==
  \A partName \in PartNames : \A event \in CollideEvents :
    event.contact # NoContact =>
      LET st == applyCollisionForce(contactState, event, partName)
          entry == st.collisionEvents[partName]
          toward == C18_TowardObstacle(event.contact)
          relativePos == VecSub(kinematicBodies[partName].position, physicsBody.position)
      IN  /\ entry.contactNormal[1] * toward[1] + entry.contactNormal[2] * toward[2]
               + entry.contactNormal[3] * toward[3] < 0
          /\ entry.appliedForce = VecScale(entry.contactNormal, 5000)
          /\ st.physicsBody.force = VecAdd(physicsBody.force, entry.appliedForce)
          /\ st.physicsBody.torque
               = VecAdd(physicsBody.torque, Cross(relativePos, entry.appliedForce))

---------------------------------------------------------------------------
(* Claims about the frame loop, checked under Spec *)

(* C5: when update() has returned, each proxy's orientation is the world
   orientation of its skeleton node and its position is the node's world
   position plus the part's fixed local centre offset rotated by that
   orientation: no offset for the blade and the main body, (0, L/2, 0) for
   the arm segments, (0, h/2, s/2) for the bucket, (0, -L/2, 0) for the
   thumb. *)
C5_ProxiesFollowSkeleton ==
  pc = "telemetry" =>
    \A n \in PartNames :
      LET node == worldTransforms(scene, dim)[n]
          offset ==
            CASE n \in {"Blade", "Main Body"} -> <<0, 0, 0>>
              [] n \in {"Arm 1 Seg 1", "Arm 1 Seg 2"} ->
                   <<0, (Mm(dim.ARM1_LENGTH) \div 2) \div 2, 0>>
              [] n = "Arm 2" -> <<0, Mm(dim.ARM2_LENGTH) \div 2, 0>>
              [] n = "Bucket" ->
                   <<0, Times(Mm(dim.BUCKET_SIZE), dim.BUCKET_HEIGHT_MULT) \div 2,
                     Mm(dim.BUCKET_SIZE) \div 2>>
              [] n = "Thumb" -> <<0, -(Mm(dim.THUMB_LENGTH) \div 2), 0>>
      IN  /\ kinematicBodies[n].quaternion = node.quaternion
          /\ kinematicBodies[n].position =
               VecAdd(node.position, Rotate(node.quaternion, offset))

(* update() has returned in a frame in which the chassis is pitched, the
   first arm has been raised and the blade lowered *)
C5_Witness ==
  /\ pc = "telemetry"
  /\ physicsBody.quaternion # Identity
  /\ scene.groupQuaternion = physicsBody.quaternion
  /\ arm1Angle > 0
  /\ scene.arm1RotX = arm1Angle
  /\ bladeHeight < -200
  /\ kinematicBodies["Thumb"].quaternion # Identity

(* C9 as stated: when telemetry reads the ledger, every entry whose
   timestamp is 100 ms or more before the current time is inactive. *)
C9_Original ==
  pc = "telemetry" =>
    \A k \in DOMAIN collisionEvents :
      now - collisionEvents[k].timestamp >= 100 => ~collisionEvents[k].isActive

(* C9, amended: when telemetry reads the ledger, every entry whose timestamp
   is more than 100 ms before the time the frame's resetFrameCollisions read
   is inactive. *)
C9_InactiveWhenOlderAtReset ==
  pc = "telemetry" =>
    \A k \in DOMAIN collisionEvents :
      resetNow - collisionEvents[k].timestamp > 100 => ~collisionEvents[k].isActive

(* telemetry reads an entry that the frame's reset found older than 100 ms *)
C9_Witness ==
  /\ pc = "telemetry"
  /\ \E k \in DOMAIN collisionEvents :
       /\ resetNow - collisionEvents[k].timestamp > 100
       /\ ~collisionEvents[k].isActive

---------------------------------------------------------------------------
(* Claims about the counters, checked under Spec *)

(* the parts whose bottom point the scan finds under the threshold *)
C11_InContact == {n \in PartNames : penetrating(bottomY(kinematicBodies[n]))}

(* C11: every contact recorded by the ground scan or by a collide callback
   adds exactly one to totalCollisions and to frameCollisions and writes the
   part's ledger entry with isActive = true; totalCollisions never
   decreases; frameCollisions is set to 0 at the start of every frame,
   before the frame's physics step, and from then to the frame's telemetry
   it grows by the contacts recorded, one for each part each scan finds in
   contact; frameCollisions <= totalCollisions always. *)
C11_CountersCountContacts ==
  /\ [](/\ frameCollisions <= totalCollisions
        /\ frameCollisions >= 0
        /\ \A n \in C11_InContact :
             LET st == scanBody(contactState, n)
             IN  /\ st.totalCollisions = totalCollisions + 1
                 /\ st.frameCollisions = frameCollisions + 1
                 /\ st.collisionEvents[n].isActive
                 /\ st.collisionEvents[n].partName = n
        /\ \A n \in PartNames : \A event \in CollideEvents :
             event.contact # NoContact =>
               LET st == applyCollisionForce(contactState, event, n)
               IN  /\ st.totalCollisions = totalCollisions + 1
                   /\ st.frameCollisions = frameCollisions + 1
                   /\ st.collisionEvents[n].isActive
                   /\ st.collisionEvents[n].partName = n)
  /\ [][ /\ totalCollisions' >= totalCollisions
         /\ (pc = "animate" /\ pc' = "step") => frameCollisions' = 0
         /\ pc' = "step" => frameCollisions' <= 7 * substeps'
         /\ ~(pc = "animate" /\ pc' = "step") =>
              frameCollisions' - frameCollisions = totalCollisions' - totalCollisions
         /\ (pc = "step" /\ substeps' = substeps + 1) =>
              /\ totalCollisions' - totalCollisions = Cardinality(C11_InContact)
              /\ \A n \in C11_InContact :
                   /\ collisionEvents'[n].isActive
                   /\ collisionEvents'[n].timestamp = now
         /\ ~(pc = "step" /\ substeps' = substeps + 1) =>
              totalCollisions' = totalCollisions ]_vars

(* telemetry reads the counters in a frame whose steps recorded contacts,
   after an earlier frame had recorded contacts too *)
C11_Witness ==
  /\ pc = "telemetry"
  /\ frameCollisions > 0
  /\ totalCollisions > frameCollisions
  /\ \E n \in DOMAIN collisionEvents : collisionEvents[n].isActive

---------------------------------------------------------------------------
(* Claims about the controls, checked under Spec *)

(* stick values the two controllers may hold, scaled by Scale *)
StickValues == {-Scale, -600, -150, 0, 150, 600, Scale}

(* clamp(x, -1, 1) as the claims state it *)
C12_Clamp(x) == IF x < -Scale THEN -Scale ELSE IF x > Scale THEN Scale ELSE x

(* C12: for every pair of gamepad and keyboard stick values each merged
   stick axis equals clamp(gamepad + keyboard, -1, 1) and lies in [-1, 1];
   gamepad 0.6 and keyboard 0.6 merge to 1.0, not 1.2; and the joints move
   by the clamped sum of the values the controllers hold in the frame. *)
C12_MergedSticksClamped ==
  /\ [](/\ \A g \in StickValues : \A k \in StickValues :
             /\ mergeStick(g, k) = C12_Clamp(g + k)
             /\ mergeStick(g, k) \in -Scale..Scale
        /\ mergeStick(600, 600) = Scale
        /\ \A axis \in {"leftStickX", "leftStickY", "rightStickX", "rightStickY"} :
             mergeStick(gamepad[axis], keyboard[axis]) \in -Scale..Scale)
  /\ [][ (pc = "controls" /\ pc' = "update") =>
           /\ mainBodyRotation' = mainBodyRotation
                + StickTimes(C12_Clamp(gamepad'.leftStickX + keyboard'.leftStickX),
                             SpeedTimes(20, dt))
           /\ arm2Angle' = clamp(arm2Angle
                + StickTimes(-C12_Clamp(gamepad'.leftStickY + keyboard'.leftStickY),
                             SpeedTimes(10, dt)), ARM2_MIN_ANGLE, ARM2_MAX_ANGLE)
           /\ arm1Angle' = clamp(arm1Angle
                + StickTimes(C12_Clamp(gamepad'.rightStickX + keyboard'.rightStickX),
                             SpeedTimes(10, dt)), ARM1_MIN_ANGLE, ARM1_MAX_ANGLE)
           /\ bucketAngle' = clamp(bucketAngle
                + StickTimes(-C12_Clamp(gamepad'.rightStickY + keyboard'.rightStickY),
                             SpeedTimes(15, dt)), BUCKET_MIN_ANGLE, BUCKET_MAX_ANGLE) ]_vars

(* handleControls has run in a frame of 0.1 s with the gamepad's right stick
   at 0.6 and the keyboard's at 1.0, and the first arm moved from 0 by
   1.0 x 0.1 rad *)
C12_Witness ==
  /\ pc = "update"
  /\ gamepad.rightStickX = 600
  /\ keyboard.rightStickX = Scale
  /\ dt = 100
  /\ arm1Angle = 100

(* blade.position.y as update() sets it, part_000:710 *)
C13_BladeY(height) == Mm(dim.TREAD_HEIGHT) + Mm(dim.BLADE_HEIGHT) \div 2 + height

(* C13 as stated: in a frame where Y (or key T) is active the blade's
   vertical position blade.position.y = TREAD_HEIGHT + BLADE_HEIGHT / 2 +
   bladeHeight never decreases, and in a frame where only A (or key G) is
   active it never increases. *)
C13_Original ==
  [][ /\ (pc = "controls" /\ pc' = "update") =>
           /\ (gamepad'.buttonY \/ keyboard'.buttonY) =>
                C13_BladeY(bladeHeight') >= C13_BladeY(bladeHeight)
           /\ (~(gamepad'.buttonY \/ keyboard'.buttonY)
                 /\ (gamepad'.buttonA \/ keyboard'.buttonA)) =>
                C13_BladeY(bladeHeight') <= C13_BladeY(bladeHeight)
      /\ (pc = "update" /\ pc' = "telemetry") =>
           scene'.bladeY = C13_BladeY(bladeHeight) ]_vars

(* tread speeds handleControls may pass, scaled by Scale *)
TreadSpeeds == {-Scale, 0, 500, Scale}

(* the chassis's forward direction, a unit vector scaled by Scale *)
C14_Forward == Rotate(physicsBody.quaternion, <<0, 0, Scale>>)

(* C14: the tread speeds handleControls passes lie in [-1, 1] (the merged
   trigger value forward, a bumper overriding it with -1); applyTreadForces
   adds average(leftSpeed, rightSpeed) x 1500 along the chassis's current
   forward direction at the centre of mass (no torque from the force) and a
   torque of (rightSpeed - leftSpeed) x 200 about the vertical axis; equal
   speeds add no torque and opposite speeds add no force. *)
C14_TreadForceAndTorque ==
  /\ [](\A l \in TreadSpeeds : \A r \in TreadSpeeds :
          LET after == applyTreadForces(physicsBody, l, r)
          IN  /\ VecSub(after.force, physicsBody.force)
                   = VecScale(C14_Forward, ((l + r) * 1500) \div (2 * Scale))
              /\ VecSub(after.torque, physicsBody.torque) = <<0, (r - l) * 200, 0>>
              /\ l = r => after.torque = physicsBody.torque
              /\ l = -r => after.force = physicsBody.force
              /\ after.position = physicsBody.position
              /\ after.quaternion = physicsBody.quaternion)
  /\ [][ (pc = "controls" /\ pc' = "update") =>
           LET trigL == Max(gamepad'.leftTrigger, keyboard'.leftTrigger)
               trigR == Max(gamepad'.rightTrigger, keyboard'.rightTrigger)
               l == IF gamepad'.leftBumper \/ keyboard'.leftBumper THEN -Scale ELSE trigL
               r == IF gamepad'.rightBumper \/ keyboard'.rightBumper THEN -Scale ELSE trigR
           IN  /\ leftTreadForce' = l
               /\ rightTreadForce' = r
               /\ l \in -Scale..Scale
               /\ r \in -Scale..Scale
               /\ VecSub(physicsBody'.force, physicsBody.force)
                    = VecScale(C14_Forward, ((l + r) * 1500) \div (2 * Scale))
               /\ VecSub(physicsBody'.torque, physicsBody.torque)
                    = <<0, (r - l) * 200, 0>> ]_vars

(* handleControls has run with the left bumper overriding a full left
   trigger and the right trigger half pressed, on a pitched chassis: a
   backward force along the pitched forward direction and a torque of
   1.5 x 200 *)
C14_Witness ==
  /\ pc = "update"
  /\ gamepad.leftTrigger = Scale
  /\ keyboard.leftBumper
  /\ leftTreadForce = -Scale
  /\ rightTreadForce = 500
  /\ physicsBody.quaternion # Identity
  /\ physicsBody.force = VecScale(C14_Forward, -375)
  /\ physicsBody.torque = <<0, 300000, 0>>

(* C15: in every frame the time step handed to world.step and to
   handleControls is min(wall-clock delta, 0.1 s); the solver advances in
   fixed steps of 1/60 s, at most 3 of them per frame, so a frame advances
   the simulation by at most 3/60 s and moves a joint by at most its speed
   times 0.1, however long the wall-clock delta was. *)
C15_DeltaCapped ==
  /\ [](/\ dt = Min(frameDelta, 100)
        /\ dt \in 0..100
        /\ substeps \in 0..3
        (* the simulated time of the frame's steps, in thirds of a
           millisecond, is at most 3/60 s = 150 thirds *)
        /\ substeps * fixedTimeStep <= 150)
  /\ [][ /\ (pc = "animate" /\ pc' = "step") =>
              /\ frameDelta' = (IF clock.running THEN now - clock.oldTime ELSE 0)
              /\ accumulator' = accumulator + 3 * Min(frameDelta', 100)
              /\ substeps' = 0
         /\ (pc = "step" /\ pc' = "step") =>
              /\ substeps' = substeps + 1
              /\ accumulator' = accumulator - fixedTimeStep
              /\ dt' = dt
         /\ (pc = "controls" /\ pc' = "update") =>
              /\ Abs(mainBodyRotation' - mainBodyRotation) <= 2 * dt
              /\ Abs(arm2Angle' - arm2Angle) <= dt
              /\ Abs(arm1Angle' - arm1Angle) <= dt
              (* 1.5 x dt and 0.5 x dt are rounded to the milliradian and the
                 millimetre *)
              /\ 2 * Abs(bucketAngle' - bucketAngle) <= 3 * dt + 1
              /\ Abs(thumbAngle' - thumbAngle) <= dt
              /\ 2 * Abs(bladeHeight' - bladeHeight) <= dt + 1
              /\ Abs(mainBodyRotation' - mainBodyRotation) <= 200
              /\ Abs(arm2Angle' - arm2Angle) <= 100
              /\ Abs(arm1Angle' - arm1Angle) <= 100
              /\ Abs(bucketAngle' - bucketAngle) <= 150
              /\ Abs(thumbAngle' - thumbAngle) <= 100
              /\ Abs(bladeHeight' - bladeHeight) <= 50 ]_vars

(* a frame that came 0.25 s after the one before it: the step is 0.1 s,
   the solver took three steps, and handleControls moved the first arm by
   1.0 x 0.1 rad and the blade by 0.5 x 0.1 m *)
C15_Witness ==
  /\ pc = "update"
  /\ frameDelta = 250
  /\ dt = 100
  /\ substeps = 3
  /\ arm1Angle = 100
  /\ bladeHeight = -250

---------------------------------------------------------------------------
(* Claims about the two force paths, checked under Spec *)

(* the sum of the synthetic forces of the parts in contact, from the i-th
   part on, one force for each *)
RECURSIVE C20_ScanForceFrom(_)
C20_ScanForceFrom(i) ==
  IF i > Len(KinematicOrder)
  THEN 0
  ELSE (IF KinematicOrder[i] \in C11_InContact
        THEN forceMagnitude(bottomY(kinematicBodies[KinematicOrder[i]]))
        ELSE 0)
       + C20_ScanForceFrom(i + 1)

(* C20: no force is applied twice for the same contact: the proxies have
   contact equations with no body of the scene, the ground plane least of
   all, so that in one physics step a part in contact with the ground is
   counted once and adds its synthetic force once, and no solver reaction
   force for the same contact: after the step the chassis's force
   accumulator holds one synthetic force for each part in contact and the
   entries written carry that force. *)
C20_OneForcePerContact ==
  /\ [](\A n \in PartNames : "Ground" \notin collidePartners(n))
  /\ [][ (pc = "step" /\ substeps' = substeps + 1) =>
           /\ totalCollisions' - totalCollisions = Cardinality(C11_InContact)
           /\ frameCollisions' - frameCollisions = Cardinality(C11_InContact)
           /\ physicsBody'.force = <<0, C20_ScanForceFrom(1), 0>>
           /\ \A n \in C11_InContact :
                /\ collisionEvents'[n].contactNormal = <<0, Scale, 0>>
                /\ collisionEvents'[n].appliedForce
                     = <<0, forceMagnitude(bottomY(kinematicBodies[n])), 0>>
           /\ \A n \in PartNames \ C11_InContact :
                n \in DOMAIN collisionEvents' =>
                  /\ n \in DOMAIN collisionEvents
                  /\ collisionEvents'[n] = collisionEvents[n] ]_vars

(* the second solver step of a frame has run with the blade on the ground:
   two contacts counted in the frame, one force of 1000 N in the accumulator *)
C20_Witness ==
  /\ pc = "step"
  /\ substeps = 2
  /\ frameCollisions = 2
  /\ "Blade" \in DOMAIN collisionEvents
  /\ collisionEvents["Blade"].timestamp = now
  /\ physicsBody.force = <<0, 1000, 0>>

---------------------------------------------------------------------------
(* Claims about the order of a frame, checked under Spec *)

(* the statements of animate() in the order they are written, part_002:436-452:
   resetFrameCollisions, world.step, handleControls, excavator.update,
   updateTelemetry; pc names the one that runs next ("animate" stands for
   the start of the frame up to resetFrameCollisions) *)
FrameOrder == <<"animate", "step", "controls", "update", "telemetry">>

(* C21: in every frame the operations run in the order counter reset,
   physics step (collide callbacks and post-step scan inside it), input
   handling (setters and tread force), skeleton re-pose and proxy
   synchronization, telemetry.  The proxy poses written in a frame are those
   of the joint values set in that frame and are written before the next
   physics step; the tread force of a frame's input is added to the chassis
   accumulator after the frame's own step, so only a later step integrates
   it: the chassis moves and its accumulators are cleared in physics steps
   only. *)
C21_FrameOrder ==
  /\ [](pc \in {FrameOrder[i] : i \in 1..Len(FrameOrder)})
  /\ [][ /\ pc' # pc =>
              \E i \in 1..Len(FrameOrder) :
                pc = FrameOrder[i] /\ pc' = FrameOrder[(i % Len(FrameOrder)) + 1]
         /\ (pc = "animate" /\ pc' = "step") =>
              /\ frameCollisions' = 0
              /\ UNCHANGED <<jointVars, bodyVars, totalCollisions, treadVars, inputVars>>
         /\ (pc = "step" /\ pc' = "step") =>
              /\ substeps' = substeps + 1
              /\ UNCHANGED <<jointVars, scene, kinematicBodies, treadVars, inputVars>>
         /\ (pc = "step" /\ pc' = "controls") =>
              UNCHANGED <<jointVars, bodyVars, ledgerVars, treadVars, inputVars>>
         /\ (pc = "controls" /\ pc' = "update") =>
              /\ physicsBody' = applyTreadForces(physicsBody, leftTreadForce', rightTreadForce')
              /\ UNCHANGED <<scene, kinematicBodies, ledgerVars>>
         /\ (pc = "update" /\ pc' = "telemetry") =>
              /\ scene' = poseScene(dim)
              /\ kinematicBodies' = updatePhysicsBodies(poseScene(dim), dim, kinematicBodies)
              /\ UNCHANGED <<jointVars, physicsBody, ledgerVars, treadVars, inputVars>>
         /\ (pc = "telemetry" /\ pc' = "animate") =>
              UNCHANGED <<jointVars, bodyVars, ledgerVars, treadVars, inputVars>>
         /\ ~(pc = "step" /\ pc' = "step") =>
              /\ physicsBody'.position = physicsBody.position
              /\ physicsBody'.quaternion = physicsBody.quaternion
              /\ ~(pc = "controls" /\ pc' = "update") => physicsBody' = physicsBody
       ]_vars

(* a frame has run its physics step, then moved the first arm and pushed the
   treads, then written the proxies for the new arm angle; the tread force
   waits in the accumulator for the next frame's step *)
C21_Witness ==
  /\ pc = "telemetry"
  /\ substeps >= 1
  /\ arm1Angle > 0
  /\ scene.arm1RotX = arm1Angle
  /\ kinematicBodies = updatePhysicsBodies(poseScene(dim), dim, kinematicBodies)
  /\ leftTreadForce # 0
  /\ physicsBody.force[3] # 0

(* C22 as stated: in every frame the input is sampled (gamepad.update,
   keyboard.update and the merge in handleControls) before the frame's
   physics step: world.step is entered from a position of the frame at which
   handleControls has run. *)
C22_Original ==
  [][ (pc # "step" /\ pc' = "step") =>
        \E i, j \in 1..Len(FrameOrder) :
          FrameOrder[i] = "controls" /\ FrameOrder[j] = pc /\ i <= j ]_vars

(* C22, amended: in every frame the input is sampled after the frame's
   physics step has returned: handleControls is entered from world.step,
   world.step is entered from the start of the frame, and the controllers'
   states change in handleControls only, so a physics step runs with the
   states sampled in the frame before. *)
C22_SamplingAfterStep ==
  [][ /\ (pc # "controls" /\ pc' = "controls") => pc = "step"
      /\ (pc # "step" /\ pc' = "step") => pc = "animate"
      /\ inputVars' # inputVars => (pc = "controls" /\ pc' = "update")
      /\ (pc = "controls" /\ pc' = "update") =>
           /\ gamepad' \in GamepadStates
           /\ keyboard' \in KeyboardStates
           /\ UNCHANGED <<substeps, accumulator, physicsBody.position,
                          physicsBody.quaternion>> ]_vars

(* the frame's world.step has taken three steps and moved the chassis, and
   handleControls has then sampled a pressed key and an active gamepad *)
C22_Witness ==
  /\ pc = "update"
  /\ substeps = 3
  /\ physicsBody.quaternion # Identity
  /\ keyboard # DefaultState
  /\ gamepad # DefaultState

(* C23: the proxies never lag the skeleton by more than one frame and are
   never integrated on their own: when a physics step runs its ground scan,
   every proxy has the pose that the synchronization of the frame before
   wrote (the copy of the scene as update() posed it, with the joint values
   of now; at the frame's first step the scene is also that of the chassis
   pose of now), and only update() changes a proxy pose: not the step, the
   scan, the collide callbacks, the input handling or the counter reset. *)
C23_ProxiesOneFrameBehind ==
  [][ /\ (pc = "step" /\ pc' = "step") =>
           /\ kinematicBodies = updatePhysicsBodies(scene, dim, kinematicBodies)
           /\ scene.mainBodyRotY = mainBodyRotation
           /\ scene.arm1RotX = arm1Angle
           /\ scene.arm2RotX = arm2Angle
           /\ scene.bucketRotX = bucketAngle
           /\ scene.thumbRotX = thumbAngle
           /\ scene.bladeY = C13_BladeY(bladeHeight)
           /\ substeps = 0 => scene = poseScene(dim)
           /\ kinematicBodies' = kinematicBodies
      /\ kinematicBodies' # kinematicBodies => (pc = "update" /\ pc' = "telemetry")
    ]_vars

(* a frame's second step is about to scan: the first step has moved the
   chassis, the proxies still stand where the frame before put them, with
   the arm raised *)
C23_Witness ==
  /\ pc = "step"
  /\ substeps = 1
  /\ accumulator >= fixedTimeStep
  /\ physicsBody.quaternion # scene.groupQuaternion
  /\ arm1Angle > 0
  /\ kinematicBodies = updatePhysicsBodies(scene, dim, kinematicBodies)
  /\ frameCollisions > 0

---------------------------------------------------------------------------
(* Claims about update() alone, checked under SpecBody *)

(* C24: update() computes the group pose, the node rotations, the blade
   position and the seven proxy poses from the joint values and the chassis
   pose alone, and is idempotent: applied to its own result it changes
   nothing (the second copy of the proxies equals the first), and a step
   taken from a state that update() has just produced, with the joint values
   and the chassis pose unchanged, leaves the scene and the proxies as they
   are. *)
C24_UpdateIdempotent ==
  /\ [](LET once == updatePhysicsBodies(poseScene(dim), dim, kinematicBodies)
            twice == updatePhysicsBodies(poseScene(dim), dim, once)
        IN  /\ twice = once
            /\ \A n \in PartNames :
                 /\ once[n].mass = kinematicBodies[n].mass
                 /\ once[n].halfExtents = kinematicBodies[n].halfExtents)
  /\ [][ ( /\ scene = poseScene(dim)
           /\ kinematicBodies = updatePhysicsBodies(scene, dim, kinematicBodies)
           /\ UNCHANGED <<jointVars, dim>>
           /\ physicsBody'.position = physicsBody.position
           /\ physicsBody'.quaternion = physicsBody.quaternion )
         => UNCHANGED <<scene, kinematicBodies>> ]_vars

(* update() has posed the skeleton and the proxies for a pitched chassis, and
   the scan has run since: a second update() finds the same inputs *)
C24_Witness ==
  /\ scene = poseScene(dim)
  /\ kinematicBodies = updatePhysicsBodies(scene, dim, kinematicBodies)
  /\ physicsBody.quaternion # Identity
  /\ kinematicBodies["Thumb"].position # Zero3
  /\ totalCollisions > 0

---------------------------------------------------------------------------
(* Claims about the merge of the two controllers, checked under SpecControls *)

(* C25 as stated: when the gamepad and the keyboard are both active on a
   stick axis, the keyboard takes priority: the merged value is the
   keyboard's, so the joint of that axis moves by the keyboard's value times
   the joint's speed. *)
C25_Original ==
  [][ /\ (gamepad'.leftStickX # 0 /\ keyboard'.leftStickX # 0) =>
           mainBodyRotation' = mainBodyRotation
             + StickTimes(keyboard'.leftStickX, SpeedTimes(20, maxDeltaTime))
      /\ (gamepad'.leftStickY # 0 /\ keyboard'.leftStickY # 0) =>
           arm2Angle' = clamp(arm2Angle
                                + StickTimes(-keyboard'.leftStickY, SpeedTimes(10, maxDeltaTime)),
                              ARM2_MIN_ANGLE, ARM2_MAX_ANGLE)
      /\ (gamepad'.rightStickX # 0 /\ keyboard'.rightStickX # 0) =>
           arm1Angle' = clamp(arm1Angle
                                + StickTimes(keyboard'.rightStickX, SpeedTimes(10, maxDeltaTime)),
                              ARM1_MIN_ANGLE, ARM1_MAX_ANGLE)
      /\ (gamepad'.rightStickY # 0 /\ keyboard'.rightStickY # 0) =>
           bucketAngle' = clamp(bucketAngle
                                  + StickTimes(-keyboard'.rightStickY, SpeedTimes(15, maxDeltaTime)),
                                BUCKET_MIN_ANGLE, BUCKET_MAX_ANGLE) ]_vars

(* C28: a frame with neutral input (no gamepad held and no key pressed, or
   both controllers otherwise reporting the default state) leaves the six
   joint values unchanged, sets the five at-limit flags to false, stores the
   tread speeds (0, 0) and adds neither force nor torque to the chassis. *)
C28_NeutralFrame ==
  [][ /\ (gamepadHandle' = Null /\ pressedKeys' = {}) =>
           (gamepad' = DefaultState /\ keyboard' = DefaultState)
      /\ (gamepad' = DefaultState /\ keyboard' = DefaultState) =>
           /\ UNCHANGED <<mainBodyRotation, arm1Angle, arm2Angle, bucketAngle,
                          thumbAngle, bladeHeight>>
           /\ ~arm1AtLimit' /\ ~arm2AtLimit' /\ ~bucketAtLimit'
           /\ ~thumbAtLimit' /\ ~bladeAtLimit'
           /\ leftTreadForce' = 0
           /\ rightTreadForce' = 0
           /\ physicsBody' = physicsBody ]_vars

(* W and Z were held in earlier frames, which left the second arm's flag set
   and a tread force in the chassis accumulator; no gamepad was ever found and
   the last frame had no key pressed: the flag is cleared, the stored speeds
   are 0 and the accumulator still holds what it held *)
C28_Witness ==
  /\ gamepadHandle = Null
  /\ pressedKeys = {}
  /\ keyboard = DefaultState
  /\ mainBodyRotation = 0
  /\ arm2Angle = ARM2_MIN_ANGLE
  /\ ~arm2AtLimit
  /\ leftTreadForce = 0
  /\ physicsBody.force[3] = MaxTreadForce
  /\ physicsBody.torque[2] # 0

---------------------------------------------------------------------------
(* C27: no ground scan runs on proxies that were never synchronized.  The
   first frame's elapsed time is 0 and a fixed step needs 1/60 s in the
   accumulator, so while the proxies stand where they were constructed
   (origin, identity) no step has run, nothing has been counted and the
   ledger is empty; every physics step, and so every scan, finds proxies
   that update() has copied from the scene, none of them at the origin. *)
C27_NoScanBeforeFirstSync ==
  /\ [](kinematicBodies = createKinematicBodies(dim) =>
          /\ dt = 0
          /\ accumulator = 0
          /\ substeps = 0
          /\ totalCollisions = 0
          /\ frameCollisions = 0
          /\ collisionEvents = <<>>
          /\ pc # "telemetry")
  /\ [][ /\ (pc = "animate" /\ ~clock.running) => (dt' = 0 /\ accumulator' = 0)
         /\ (pc = "step" /\ pc' = "step") =>
              /\ accumulator >= fixedTimeStep
              /\ kinematicBodies # createKinematicBodies(dim)
              /\ kinematicBodies = updatePhysicsBodies(scene, dim, kinematicBodies)
              /\ \A n \in PartNames : kinematicBodies[n].position # Zero3 ]_vars

(* the second frame has run the first scan of the program: the proxies are
   those the first frame's update() wrote for the spawn pose, where the scan
   finds no contact, while every proxy left at the origin would have been
   one *)
C27_Witness ==
  /\ pc = "step"
  /\ now = TickMs
  /\ clock.oldTime = TickMs
  /\ substeps = 1
  /\ kinematicBodies = updatePhysicsBodies(scene, dim, kinematicBodies)
  /\ kinematicBodies["Blade"].position # Zero3
  /\ totalCollisions = 0
  /\ \A n \in PartNames : penetrating(bottomY(createKinematicBodies(dim)[n]))

---------------------------------------------------------------------------

(* Claims about frames shorter than a fixed step, checked under SpecPace *)

(* C26 as stated: propulsion is never counted twice: the tread force and
   torque that a fixed physics step integrates are those of at most one
   handleControls call, also after frames in which world.step took no fixed
   step.  The scan's forces are vertical and their torques have no vertical
   component, so the horizontal force and the vertical torque in the
   accumulator at a step are the treads' alone. *)
C26_Original ==
  [][ (pc = "step" /\ pc' = "step") =>
        \E l \in TreadSpeeds, r \in TreadSpeeds :
          LET one == applyTreadForces(
                       [physicsBody EXCEPT !.force = Zero3, !.torque = Zero3], l, r)
          IN  /\ physicsBody.force[1] = one.force[1]
              /\ physicsBody.force[3] = one.force[3]
              /\ physicsBody.torque[2] = one.torque[2] ]_vars

---------------------------------------------------------------------------
(* Claims about the controllers, checked under SpecInput *)

(* the state the keyboard is to report for a set of held keys: of two
   opposite keys the second named wins *)
C29_Expected(keys) ==
  [ leftStickX |-> IF "d" \in keys THEN -Scale ELSE IF "a" \in keys THEN Scale ELSE 0,
    leftStickY |-> IF "s" \in keys THEN -Scale ELSE IF "w" \in keys THEN Scale ELSE 0,
    rightStickX |-> IF "arrowdown" \in keys THEN -Scale
                    ELSE IF "arrowup" \in keys THEN Scale ELSE 0,
    rightStickY |-> IF "arrowright" \in keys THEN Scale
                    ELSE IF "arrowleft" \in keys THEN -Scale ELSE 0,
    leftTrigger |-> IF "z" \in keys THEN Scale ELSE 0,
    rightTrigger |-> IF "/" \in keys THEN Scale ELSE 0,
    leftBumper |-> "x" \in keys,
    rightBumper |-> "." \in keys,
    dpadUp |-> "r" \in keys,
    dpadDown |-> "f" \in keys,
    buttonY |-> "t" \in keys,
    buttonA |-> "g" \in keys ]

(* C29: the state the keyboard reports after update() depends on the set of
   held keys alone: it is rebuilt from the default state, with D overriding
   A, S overriding W, ArrowDown overriding ArrowUp and ArrowRight overriding
   ArrowLeft; the key events change the held set only, and the state only in
   update(); a blur empties the held set whatever was held, so that the next
   update() reports the default state until a key goes down again. *)
C29_KeyboardStateFromPressedKeys ==
  /\ [](/\ keyboardUpdate(pressedKeys) = C29_Expected(pressedKeys)
        /\ pressedKeys = {} => keyboardUpdate(pressedKeys) = DefaultState
        /\ \E keys \in SUBSET {toLowerCase(key) : key \in EventKeys} :
             keyboard = C29_Expected(keys))
  /\ [][ /\ keyboard' # keyboard =>
              /\ pressedKeys' = pressedKeys
              /\ keyboard' = C29_Expected(pressedKeys)
         /\ pressedKeys' # pressedKeys => keyboard' = keyboard
         /\ (Cardinality(pressedKeys) >= 2 /\ pressedKeys' = {}) =>
              keyboardUpdate(pressedKeys') = DefaultState ]_vars

(* A and D are both held, with ArrowUp, and update() has run: the left stick
   reports D's value *)
C29_Witness ==
  /\ pressedKeys = {"a", "d", "arrowup"}
  /\ keyboard = keyboardUpdate(pressedKeys)
  /\ keyboard.leftStickX = -analogValue
  /\ keyboard.rightStickX = analogValue

(* C30 as stated: isConnected() is true exactly when the controller holds a
   gamepad handle that update() reads from, whatever the order of
   gamepadconnected events, gamepaddisconnected events and update() calls
   that find or do not find a gamepad at index 0; and without a handle (at
   the start, and after a gamepaddisconnected event until a gamepad is read
   again) getState() returns the default state. *)
C30_Original ==
  /\ connected = (gamepadHandle # Null)
  /\ gamepadHandle = Null => gamepad = DefaultState

====
